---------------------------- MODULE Spec2Model ----------------------------
(***************************************************************************)
(* A model of the hfortix-fortiztp client SDK:                             *)
(*   - FortiZTPResponse, the response envelope           (models.py)       *)
(*   - the endpoint methods of the four endpoint groups  (api/v2/*.py)     *)
(*   - FortiZTP.__init__, the construction of the facade (__init__.py)     *)
(*   - the methods of the facade: teardown, telemetry    (__init__.py)     *)
(* The transport (CloudHTTPClient), FortiCloudAuth and CloudSession are    *)
(* external collaborators: the model records the calls made on them and    *)
(* draws their outcomes nondeterministically.                              *)
(***************************************************************************)
EXTENDS Integers, Sequences, FiniteSets, TLC

VARIABLES
    env,            \* the FortiZTPResponse under study, or NoEnvelope
    acc,            \* the last access made on env and its outcome
    ctor,           \* the last FortiZTP(...) construction: inputs, calls, outcome
    invocations,    \* the endpoint methods invoked so far, in order
    transport_log,  \* the calls received by the transport handle, in order
    last,           \* the last endpoint invocation: request, exchange, result
    held,           \* the envelope as constructed, and the mappings the caller keeps
    facade,         \* the calls made on the client itself and what they did
    callers         \* the callers that use one client at the same time

vars ==
    <<env, acc, ctor, invocations, transport_log, last, held, facade, callers>>

---------------------------------------------------------------------------
(* Bounds of the model.                                                    *)

\* the largest number of keys of a payload
MaxKeys == 2
\* the largest number of endpoint invocations in one behaviour
MaxCalls == 2
\* the largest number of iterations of one envelope that are under way
MaxIters == 2
\* the number of callers that use one client at the same time
MaxCallers == 2

---------------------------------------------------------------------------
(* Python values.  Every value is a record of one shape, so that any two   *)
(* values can be compared: t is the type, i the number of an int or bool,  *)
(* s the text of a str (or the name of a bound method), d the items of a   *)
(* dict (a sequence of <<key, value>> pairs in insertion order) or of a    *)
(* list.                                                                   *)

PyNone == [t |-> "None", i |-> 0, s |-> "", d |-> <<>>]
PyInt(n) == [t |-> "int", i |-> n, s |-> "", d |-> <<>>]
PyBool(b) == [t |-> "bool", i |-> IF b THEN 1 ELSE 0, s |-> "", d |-> <<>>]
PyStr(str) == [t |-> "str", i |-> 0, s |-> str, d |-> <<>>]
PyDict(items) == [t |-> "dict", i |-> 0, s |-> "", d |-> items]
PyList(items) == [t |-> "list", i |-> 0, s |-> "", d |-> items]
PyFloat(millis) == [t |-> "float", i |-> millis, s |-> "", d |-> <<>>]
PyMethod(name) == [t |-> "method", i |-> 0, s |-> name, d |-> <<>>]

\* bool(v): the truth value Python gives v in a condition
Truthy(v) ==
    CASE v.t = "None" -> FALSE
      [] v.t \in {"int", "bool", "float"} -> v.i /= 0
      [] v.t = "str" -> v.s /= ""
      [] v.t \in {"dict", "list"} -> v.d /= <<>>
      [] OTHER -> TRUE

\* what an f-string puts for {v}
PyFormat(v) ==
    CASE v.t = "str" -> v.s
      [] v.t = "int" -> ToString(v.i)
      [] v.t = "bool" -> IF v.i = 1 THEN "True" ELSE "False"
      [] OTHER -> "None"

(* dict operations on the items of a dict *)
DictKeys(items) == {items[j][1] : j \in DOMAIN items}
DictHas(items, key) == key \in DictKeys(items)
DictAt(items, key) == (CHOOSE j \in DOMAIN items : items[j][1] = key)
DictValue(items, key) == items[DictAt(items, key)][2]
\* dict.get(key, default)
DictGet(items, key, default) ==
    IF DictHas(items, key) THEN DictValue(items, key) ELSE default

(* The outcome of an operation: a returned value or a raised error. *)
Return(v) == [kind |-> "return", val |-> v]
Raise(error) == [kind |-> error, val |-> PyNone]

---------------------------------------------------------------------------
(* Names.  A name is <<first character, rest>>; the empty name is          *)
(* <<"", "">>.                                                             *)

\* name.startswith("_")
StartsWithUnderscore(name) == name[1] = "_"

N_total == <<"t", "otal">>
N_raw == <<"r", "aw">>
N_get == <<"g", "et">>
N_dict == <<"d", "ict">>
N_x == <<"_", "x">>
N_data == <<"_", "data">>
N_http_status_code == <<"_", "http_status_code">>
N_response_time == <<"_", "response_time">>
N_request_info == <<"_", "request_info">>
N_method == <<"m", "ethod">>
N_url == <<"u", "rl">>
N_params == <<"p", "arams">>
N_reqdata == <<"d", "ata">>

\* the instance attributes __init__ sets
InstanceFields == {N_data, N_http_status_code, N_response_time, N_request_info}
\* the properties of the class
PropertyNames ==
    {<<"h", "ttp_status_code">>, <<"r", "esponse_time">>, N_raw,
     <<"r", "equest_info">>, <<"r", "equest_method">>, <<"r", "equest_url">>,
     <<"r", "equest_params">>, <<"r", "equest_data">>}
\* the methods the class defines
MethodNames ==
    {N_dict, N_get, <<"_", "_init__">>, <<"_", "_getattr__">>,
     <<"_", "_getitem__">>, <<"_", "_contains__">>, <<"_", "_iter__">>,
     <<"_", "_len__">>, <<"_", "_repr__">>}
\* attributes every Python object has (a representative part of them)
ObjectAttrNames ==
    {<<"_", "_class__">>, <<"_", "_dict__">>, <<"_", "_doc__">>,
     <<"_", "_module__">>, <<"_", "_eq__">>, <<"_", "_hash__">>,
     <<"_", "_str__">>, <<"_", "_setattr__">>, <<"_", "_getattribute__">>}
\* every name normal attribute lookup finds on an envelope
OwnAttributeNames ==
    InstanceFields \cup PropertyNames \cup MethodNames \cup ObjectAttrNames

---------------------------------------------------------------------------
(* FortiZTPResponse *)

NoEnvelope == [made |-> FALSE]

\* FortiZTPResponse.__init__
FortiZTPResponse(data, http_status_code, response_time, request_info) ==
    [made |-> TRUE,
     _data |-> data,
     _http_status_code |-> http_status_code,
     _response_time |-> response_time,
     _request_info |-> request_info]

\* the convenience accessors of request_info
RequestInfoField(e, key) ==
    IF Truthy(e._request_info)
    THEN DictGet(e._request_info.d, key, PyNone)
    ELSE PyNone

\* the value of a property of the class
PropertyValue(e, name) ==
    CASE name = <<"h", "ttp_status_code">> -> e._http_status_code
      [] name = <<"r", "esponse_time">> -> e._response_time
      [] name = N_raw -> PyDict(e._data)
      [] name = <<"r", "equest_info">> -> e._request_info
      [] name = <<"r", "equest_method">> -> RequestInfoField(e, N_method)
      [] name = <<"r", "equest_url">> -> RequestInfoField(e, N_url)
      [] name = <<"r", "equest_params">> -> RequestInfoField(e, N_params)
      [] name = <<"r", "equest_data">> -> RequestInfoField(e, N_reqdata)

\* the value of an instance attribute
InstanceFieldValue(e, name) ==
    CASE name = N_data -> PyDict(e._data)
      [] name = N_http_status_code -> e._http_status_code
      [] name = N_response_time -> e._response_time
      [] name = N_request_info -> e._request_info

\* FortiZTPResponse.get
Get(e, key, default) == Return(DictGet(e._data, key, default))

\* __getattr__ with a fault: the payload is never consulted
GetAttrHookSkipsData(e, name) == Raise("AttributeError")
\* __getattr__ with a fault: the test of the leading '_' is missing
GetAttrHookNoUnderscoreTest(e, name) ==
    IF DictHas(e._data, name)
    THEN Return(DictValue(e._data, name))
    ELSE Raise("AttributeError")
\* FortiZTPResponse.__getattr__ : the hook Python calls when normal
\* attribute lookup finds nothing
GetAttrHook(e, name) ==
    IF StartsWithUnderscore(name)
    THEN Raise("AttributeError")
    ELSE IF DictHas(e._data, name)
         THEN Return(DictValue(e._data, name))
         ELSE Raise("AttributeError")

\* attribute access e.name : Python's lookup on the class and the instance
\* first, and __getattr__ only when that finds nothing
GetAttribute(e, name) ==
    IF name \in PropertyNames THEN Return(PropertyValue(e, name))
    ELSE IF name \in InstanceFields THEN Return(InstanceFieldValue(e, name))
    ELSE IF name \in MethodNames \cup ObjectAttrNames
         THEN Return(PyMethod(name[1] \o name[2]))
    ELSE GetAttrHook(e, name)

\* __getitem__ with a fault: an absent key yields None instead of KeyError
GetItemWithDefault(e, key) == Return(DictGet(e._data, key, PyNone))
\* FortiZTPResponse.__getitem__
GetItem(e, key) ==
    IF DictHas(e._data, key)
    THEN Return(DictValue(e._data, key))
    ELSE Raise("KeyError")

\* __contains__ with a fault: the names of the members of the wrapper are
\* found too
ContainsOrMember(e, key) ==
    Return(PyBool(DictHas(e._data, key) \/ key \in PropertyNames \cup MethodNames))
\* FortiZTPResponse.__contains__
Contains(e, key) == Return(PyBool(DictHas(e._data, key)))

\* dict.copy(): a new dict that is given the items one by one, in order
RECURSIVE CopyItems(_)
CopyItems(items) ==
    IF items = <<>> THEN <<>>
    ELSE << <<Head(items)[1], Head(items)[2]>> >> \o CopyItems(Tail(items))

\* FortiZTPResponse.dict : the value returned
Dict(e) == Return(PyDict(CopyItems(e._data)))

\* the text of a name
NameText(name) == name[1] \o name[2]

\* FortiZTPResponse.__iter__ : the keys iter(self._data) yields, in order
Iter(e) == Return(PyList([j \in DOMAIN e._data |-> PyStr(NameText(e._data[j][1]))]))

\* the key an iterator over the keys of a dict is at, as the caller gets it
KeyAt(items, at) == PyStr(NameText(items[at][1]))

\* __iter__ with a fault: the envelope is its own iterator, an iteration
\* goes on from where the one before it stopped
IterOfResumes(e, others) ==
    IF others = <<>>
    THEN [at |-> 0, yielded |-> <<>>, done |-> FALSE]
    ELSE [at |-> others[Len(others)].at, yielded |-> <<>>, done |-> FALSE]
\* FortiZTPResponse.__iter__ : iter(self._data), a new iterator of the dict
\* that has yielded nothing, whatever the iterators made before it (others)
\* have done
IterOf(e, others) == [at |-> 0, yielded |-> <<>>, done |-> FALSE]

\* next(it), it an iterator over the keys of e._data: the iterator after it
IterAfterNext(e, it) ==
    IF it.done \/ it.at >= Len(e._data)
    THEN [it EXCEPT !.done = TRUE]
    ELSE [it EXCEPT !.at = @ + 1,
                    !.yielded = Append(@, KeyAt(e._data, it.at + 1))]
\* next(it): what the caller gets
IterNext(e, it) ==
    IF it.done \/ it.at >= Len(e._data)
    THEN Raise("StopIteration")
    ELSE Return(KeyAt(e._data, it.at + 1))

\* __len__ with a fault: the keys that begin with '_' are not counted
LenOfPublic(e) ==
    Return(PyInt(Len(SelectSeq(e._data,
                               LAMBDA item : ~StartsWithUnderscore(item[1])))))
\* FortiZTPResponse.__len__
LenOf(e) == Return(PyInt(Len(e._data)))

\* three digits for a number of thousandths
Pad3(n) ==
    IF n < 10 THEN "00" \o ToString(n)
    ELSE IF n < 100 THEN "0" \o ToString(n)
    ELSE ToString(n)
\* what an f-string puts for {v:.3f}, v a float held in thousandths
Format3f(v) == ToString(v.i \div 1000) \o "." \o Pad3(v.i % 1000)

\* ', '.join(parts)
RECURSIVE Join(_)
Join(parts) ==
    IF parts = <<>> THEN ""
    ELSE IF Len(parts) = 1 THEN parts[1]
    ELSE parts[1] \o ", " \o Join(Tail(parts))

\* `if p` for a str p
NonEmpty(p) == p /= ""

\* FortiZTPResponse.__repr__
Repr(e) ==
    LET status == IF Truthy(e._http_status_code)
                  THEN "status=" \o PyFormat(e._http_status_code) ELSE ""
        time == IF Truthy(e._response_time)
                THEN "time=" \o Format3f(e._response_time) \o "s" ELSE ""
        parts == SelectSeq(<<status, time>>, NonEmpty)
        metadata == IF parts /= <<>> THEN "(" \o Join(parts) \o ")" ELSE ""
    IN  Return(PyStr("<" \o "FortiZTPResponse" \o metadata \o ">"))

\* the outcome of the access op made on e
Outcome(e, op, key, default) ==
    CASE op = "getitem" -> GetItem(e, key)
      [] op = "get" -> Get(e, key, default)
      [] op = "getattr" -> GetAttribute(e, key)
      [] op = "contains" -> Contains(e, key)
      [] op = "property" -> Return(PropertyValue(e, key))
      [] op = "dict" -> Dict(e)
      [] op = "iter" -> Iter(e)
      [] op = "len" -> LenOf(e)
      [] op = "repr" -> Repr(e)

\* the accessors with a fault: env[key] for an absent key stores None
\* under the key before it fails (as a defaultdict would)
AfterAccessFillsMissing(e, op, key) ==
    IF op = "getitem" /\ ~DictHas(e._data, key)
    THEN [e EXCEPT !._data = Append(e._data, <<key, PyNone>>)]
    ELSE e
\* the envelope an access leaves behind.  No property and no method of
\* the class assigns to self or changes self._data, self._request_info,
\* whether it returns or raises.
AfterAccess(e, op, key) == e

(* Which dict a reference is to: the dict the envelope holds in _data      *)
(* itself (the same object), or another dict with items of its own.        *)
DataItself == [is_data |-> TRUE, items |-> <<>>]
OtherDict(items) == [is_data |-> FALSE, items |-> items]

\* self._data = data : the envelope keeps the mapping it was given
KeptObject(data) == DataItself
\* return self._data : the object raw returns
RawObject(e) == DataItself
\* dict() with a fault: self._data is returned, not a copy
DictObjectAliased(e) == DataItself
\* return self._data.copy() : the object dict() returns
DictObject(e) == OtherDict(CopyItems(e._data))

\* m[key] = value on a dict
SetItem(items, key, value) ==
    IF DictHas(items, key)
    THEN [items EXCEPT ![DictAt(items, key)] = <<key, value>>]
    ELSE Append(items, <<key, value>>)
\* del m[key] on a dict that has the key
DelItem(items, key) ==
    SelectSeq(items, LAMBDA item : item[1] /= key)

---------------------------------------------------------------------------
(* The envelope under study: one envelope is constructed, then read.       *)

\* the keys a payload may hold, and the names the reads are made with: a
\* plain field, the name of a property, the name of a method, a private
\* name, and the name of an instance attribute
KeyNames == {N_total, N_raw, N_get, N_x, N_data}
PayloadValues == {PyInt(1), PyInt(2)}
Defaults == {PyNone, PyInt(9)}
StatusCodes == {PyNone, PyInt(0), PyInt(200)}
ResponseTimes == {PyNone, PyFloat(0), PyFloat(1234)}
RequestInfos == {PyNone, PyDict(<< <<N_method, PyStr("GET")>> >>)}
\* the metadata an envelope is given: nothing, a status code only, an
\* elapsed time only, all three, and a zero for the code or for the time
Metadata ==
    {m \in StatusCodes \X ResponseTimes \X RequestInfos :
        \/ m[3] = PyNone /\ (m[1] = PyNone \/ m[2] = PyNone)
        \/ m[3] = PyNone /\ m[1] = PyInt(0) /\ m[2] = PyFloat(0)
        \/ m[3] /= PyNone /\ m[1] = PyInt(200) /\ m[2] = PyFloat(1234)}

\* the dicts of at most MaxKeys keys
Payloads ==
    UNION {{p \in [1..n -> KeyNames \X PayloadValues] :
               \A a, b \in 1..n : a /= b => p[a][1] /= p[b][1]} :
           n \in 0..MaxKeys}

NoAccess == [op |-> "none", key |-> <<"", "">>, default |-> PyNone,
             out |-> Return(PyNone)]
Access(op, key, default, out) ==
    [op |-> op, key |-> key, default |-> default, out |-> out]

\* what the caller holds of the envelope: the envelope as it was when it
\* was constructed, and the mappings the caller has a reference to, by
\* origin ("arg" the mapping passed to the constructor, "raw", "dict")
NothingHeld == [built |-> NoEnvelope, maps |-> <<>>, iters |-> <<>>]
\* the items of the dict a reference is to
Deref(ref) == IF ref.is_data THEN env._data ELSE ref.items

\* FortiZTPResponse(data, http_status_code, response_time, request_info)
Construct(data, sc, rt, ri) ==
    /\ ~env.made
    /\ env' = FortiZTPResponse(data, sc, rt, ri)
    /\ held' = [built |-> FortiZTPResponse(data, sc, rt, ri),
                maps |-> [o \in {"arg"} |-> KeptObject(data)],
                iters |-> <<>>]
    /\ UNCHANGED <<acc, ctor, invocations, transport_log, last, facade, callers>>

\* env[key]
ReadItem(key) ==
    /\ env.made
    /\ acc' = Access("getitem", key, PyNone, GetItem(env, key))
    /\ env' = AfterAccess(env, "getitem", key)
    /\ UNCHANGED <<ctor, invocations, transport_log, last, held, facade, callers>>

\* env.get(key, default)
ReadGet(key, default) ==
    /\ env.made
    /\ acc' = Access("get", key, default, Get(env, key, default))
    /\ env' = AfterAccess(env, "get", key)
    /\ UNCHANGED <<ctor, invocations, transport_log, last, held, facade, callers>>

\* env.<key>
ReadAttr(key) ==
    /\ env.made
    /\ acc' = Access("getattr", key, PyNone, GetAttribute(env, key))
    /\ env' = AfterAccess(env, "getattr", key)
    /\ UNCHANGED <<ctor, invocations, transport_log, last, held, facade, callers>>

\* key in env
ReadContains(key) ==
    /\ env.made
    /\ acc' = Access("contains", key, PyNone, Contains(env, key))
    /\ env' = AfterAccess(env, "contains", key)
    /\ UNCHANGED <<ctor, invocations, transport_log, last, held, facade, callers>>

\* env.<name> for a property of the class
ReadProperty(name) ==
    /\ env.made
    /\ acc' = Access("property", name, PyNone, Return(PropertyValue(env, name)))
    /\ env' = AfterAccess(env, "property", name)
    /\ UNCHANGED <<ctor, invocations, transport_log, last, held, facade, callers>>

\* env.dict()
ReadDict ==
    /\ env.made
    /\ acc' = Access("dict", <<"", "">>, PyNone, Dict(env))
    /\ env' = AfterAccess(env, "dict", <<"", "">>)
    /\ UNCHANGED <<ctor, invocations, transport_log, last, held, facade, callers>>

\* list(env)
ReadIter ==
    /\ env.made
    /\ acc' = Access("iter", <<"", "">>, PyNone, Iter(env))
    /\ env' = AfterAccess(env, "iter", <<"", "">>)
    /\ UNCHANGED <<ctor, invocations, transport_log, last, held, facade, callers>>

\* len(env)
ReadLen ==
    /\ env.made
    /\ acc' = Access("len", <<"", "">>, PyNone, LenOf(env))
    /\ env' = AfterAccess(env, "len", <<"", "">>)
    /\ UNCHANGED <<ctor, invocations, transport_log, last, held, facade, callers>>

\* repr(env)
ReadRepr ==
    /\ env.made
    /\ acc' = Access("repr", <<"", "">>, PyNone, Repr(env))
    /\ env' = AfterAccess(env, "repr", <<"", "">>)
    /\ UNCHANGED <<ctor, invocations, transport_log, last, held, facade, callers>>

NextEnvelope ==
    \/ \E data \in Payloads, m \in Metadata :
            Construct(data, m[1], m[2], m[3])
    \/ \E key \in KeyNames : ReadItem(key)
    \/ \E key \in KeyNames, default \in Defaults : ReadGet(key, default)
    \/ \E key \in KeyNames : ReadAttr(key)
    \/ \E key \in KeyNames : ReadContains(key)
    \/ \E name \in PropertyNames : ReadProperty(name)
    \/ ReadDict
    \/ ReadIter
    \/ ReadLen
    \/ ReadRepr

---------------------------------------------------------------------------
(* Iterations of the envelope: the caller keeps the iterators it got and   *)
(* advances them in any order, between other reads.                        *)

\* it = iter(env)
StartIter ==
    /\ env.made
    /\ Len(held.iters) < MaxIters
    /\ held' = [held EXCEPT !.iters = Append(@, IterOf(env, @))]
    /\ env' = AfterAccess(env, "iter", <<"", "">>)
    /\ UNCHANGED <<acc, ctor, invocations, transport_log, last, facade, callers>>

\* next(it), it the i-th iterator the caller got
StepIter(i) ==
    /\ env.made
    /\ i \in DOMAIN held.iters
    /\ ~held.iters[i].done
    /\ acc' = Access("next", <<"", "">>, PyNone, IterNext(env, held.iters[i]))
    /\ held' = [held EXCEPT !.iters[i] = IterAfterNext(env, @)]
    /\ env' = AfterAccess(env, "next", <<"", "">>)
    /\ UNCHANGED <<ctor, invocations, transport_log, last, facade, callers>>

\* the keys and the payloads of this part
IteratedKeys == {N_total, N_x, N_raw}
IteratedPayloads == {p \in Payloads : DictKeys(p) \subseteq IteratedKeys}

NextIterate ==
    \/ \E data \in IteratedPayloads : Construct(data, PyNone, PyNone, PyNone)
    \/ StartIter
    \/ \E i \in 1..MaxIters : StepIter(i)
    \/ \E key \in IteratedKeys : ReadItem(key)
    \/ ReadLen

---------------------------------------------------------------------------
(* The caller keeps the mappings it gave to and got from the envelope and  *)
(* changes them.                                                           *)

\* the keys and the payloads of this part
OwnedKeys == {N_total, N_x}
OwnedPayloads == {p \in Payloads : DictKeys(p) \subseteq OwnedKeys}

\* m = env.raw, and m is kept
KeepRaw ==
    /\ env.made
    /\ "raw" \notin DOMAIN held.maps
    /\ acc' = Access("property", N_raw, PyNone, Return(PropertyValue(env, N_raw)))
    /\ env' = AfterAccess(env, "property", N_raw)
    /\ held' = [held EXCEPT !.maps = [o \in {"raw"} |-> RawObject(env)] @@ @]
    /\ UNCHANGED <<ctor, invocations, transport_log, last, facade, callers>>

\* m = env.dict(), and m is kept
KeepDict ==
    /\ env.made
    /\ "dict" \notin DOMAIN held.maps
    /\ acc' = Access("dict", <<"", "">>, PyNone, Dict(env))
    /\ env' = AfterAccess(env, "dict", <<"", "">>)
    /\ held' = [held EXCEPT !.maps = [o \in {"dict"} |-> DictObject(env)] @@ @]
    /\ UNCHANGED <<ctor, invocations, transport_log, last, facade, callers>>

\* the dict a kept reference is to gets the items new: the envelope sees
\* them when the dict is the one it holds
Mutate(origin, new) ==
    IF held.maps[origin].is_data
    THEN /\ env' = [env EXCEPT !._data = new]
         /\ held' = held
    ELSE /\ env' = env
         /\ held' = [held EXCEPT !.maps[origin].items = new]

\* m[key] = value, m a kept mapping
StoreInHeld(origin, key, value) ==
    /\ env.made
    /\ origin \in DOMAIN held.maps
    /\ Mutate(origin, SetItem(Deref(held.maps[origin]), key, value))
    /\ UNCHANGED <<acc, ctor, invocations, transport_log, last, facade, callers>>

\* del m[key], m a kept mapping that has the key
DeleteFromHeld(origin, key) ==
    /\ env.made
    /\ origin \in DOMAIN held.maps
    /\ DictHas(Deref(held.maps[origin]), key)
    /\ Mutate(origin, DelItem(Deref(held.maps[origin]), key))
    /\ UNCHANGED <<acc, ctor, invocations, transport_log, last, facade, callers>>

Origins == {"arg", "raw", "dict"}

NextOwnership ==
    \/ \E data \in OwnedPayloads : Construct(data, PyNone, PyNone, PyNone)
    \/ KeepRaw
    \/ KeepDict
    \/ \E origin \in Origins, key \in OwnedKeys, value \in PayloadValues :
            StoreInHeld(origin, key, value)
    \/ \E origin \in Origins, key \in OwnedKeys : DeleteFromHeld(origin, key)
    \/ \E key \in OwnedKeys : ReadItem(key)
    \/ ReadLen

---------------------------------------------------------------------------
(* Endpoint methods.  Each method builds a path, a query or body dict,     *)
(* makes one call on the transport handle self._client and wraps what the  *)
(* call returns in FortiZTPResponse(response).                             *)

\* an argument of a transport call: passed with a value, or left out
NotPassed == [passed |-> FALSE, value |-> PyNone]
Passed(v) == [passed |-> TRUE, value |-> v]
Request(verb, path, params, data) ==
    [verb |-> verb, path |-> path, params |-> params, data |-> data]

\* the test with a fault: `if v:` for `if v is not None:`
IsNotNoneByTruth(pair) == Truthy(pair[2])
\* `if v is not None: d[key] = v`, for each <<key, v>> in turn
IsNotNone(pair) == pair[2] /= PyNone
Optional(pairs) == SelectSeq(pairs, IsNotNone)

(* DevicesAPI *)

\* DevicesAPI.list with a fault: the `is not None` tests are missing
devices_list_request_all_keys(provision_status, device_type, device_sn, use_cache) ==
    Request("GET", "/v2/devices",
            Passed(PyDict(<< <<"provisionStatus", provision_status>>,
                             <<"deviceType", device_type>>,
                             <<"deviceSN", device_sn>>,
                             <<"useCache", use_cache>> >>)),
            NotPassed)
\* DevicesAPI.list
devices_list_request(provision_status, device_type, device_sn, use_cache) ==
    Request("GET", "/v2/devices",
            Passed(PyDict(Optional(<< <<"provisionStatus", provision_status>>,
                                      <<"deviceType", device_type>>,
                                      <<"deviceSN", device_sn>>,
                                      <<"useCache", use_cache>> >>))),
            NotPassed)

\* DevicesAPI.bulk_provision
devices_bulk_provision_request(devices) ==
    Request("PUT", "/v2/devices", NotPassed, Passed(devices))

\* DevicesAPI.get
devices_get_request(device_sn, use_cache) ==
    Request("GET", "/v2/devices/" \o PyFormat(device_sn),
            Passed(PyDict(Optional(<< <<"useCache", use_cache>> >>))),
            NotPassed)

\* DevicesAPI.put ; opt holds the eleven optional parameters
devices_put_request(device_sn, device_type, provision_status, opt) ==
    Request("PUT", "/v2/devices/" \o PyFormat(device_sn),
            NotPassed,
            Passed(PyDict(
                << <<"deviceSN", device_sn>>,
                   <<"deviceType", device_type>>,
                   <<"provisionStatus", provision_status>> >>
                \o Optional(
                << <<"provisionTarget", opt.provision_target>>,
                   <<"region", opt.region>>,
                   <<"externalControllerSn", opt.external_controller_sn>>,
                   <<"externalControllerIp", opt.external_controller_ip>>,
                   <<"platform", opt.platform>>,
                   <<"firmwareProfile", opt.firmware_profile>>,
                   <<"fortiManagerOid", opt.forti_manager_oid>>,
                   <<"scriptOid", opt.script_oid>>,
                   <<"useDefaultScript", opt.use_default_script>>,
                   <<"provisioningTimestamp", opt.provisioning_timestamp>>,
                   <<"provisioningCompleteTimestamp",
                     opt.provisioning_complete_timestamp>> >>))))

\* DevicesAPI.firmware_profiles with a fault: the identifiers are swapped
devices_firmware_profiles_request_swapped(device_sn, region) ==
    Request("GET",
            "/v2/devices/" \o PyFormat(region) \o "/regions/"
                \o PyFormat(device_sn) \o "/firmwareprofiles",
            NotPassed, NotPassed)
\* DevicesAPI.firmware_profiles
devices_firmware_profiles_request(device_sn, region) ==
    Request("GET",
            "/v2/devices/" \o PyFormat(device_sn) \o "/regions/"
                \o PyFormat(region) \o "/firmwareprofiles",
            NotPassed, NotPassed)

(* ScriptsAPI *)

\* the body of scripts_put and scripts_post
ScriptBody(oid, name, update_time) ==
    PyDict(<< <<"oid", oid>>, <<"name", name>> >>
           \o Optional(<< <<"updateTime", update_time>> >>))

\* ScriptsAPI.scripts_get
scripts_get_request(oid) ==
    Request("GET", "/v2/setting/scripts/" \o PyFormat(oid),
            NotPassed, NotPassed)
\* ScriptsAPI.scripts_put
scripts_put_request(oid, name, update_time) ==
    Request("PUT", "/v2/setting/scripts/" \o PyFormat(oid),
            NotPassed, Passed(ScriptBody(oid, name, update_time)))
\* ScriptsAPI.scripts_delete
scripts_delete_request(oid) ==
    Request("DELETE", "/v2/setting/scripts/" \o PyFormat(oid),
            NotPassed, NotPassed)
\* ScriptsAPI.scripts_list
scripts_list_request == Request("GET", "/v2/setting/scripts", NotPassed, NotPassed)
\* ScriptsAPI.scripts_post
scripts_post_request(oid, name, update_time) ==
    Request("POST", "/v2/setting/scripts",
            NotPassed, Passed(ScriptBody(oid, name, update_time)))
\* ScriptsAPI.scripts_get_content
scripts_get_content_request(oid) ==
    Request("GET", "/v2/setting/scripts/" \o PyFormat(oid) \o "/content",
            NotPassed, NotPassed)
\* ScriptsAPI.scripts_put_content ; data = None is passed as the body
scripts_put_content_request(oid) ==
    Request("PUT", "/v2/setting/scripts/" \o PyFormat(oid) \o "/content",
            NotPassed, Passed(PyNone))

(* FortiManagersAPI *)

\* the body of fortimanagers_put and fortimanagers_post
FortiManagerBody(oid, sn, ip, script_oid, update_time) ==
    PyDict(Optional(<< <<"oid", oid>> >>)
           \o << <<"sn", sn>>, <<"ip", ip>> >>
           \o Optional(<< <<"scriptOid", script_oid>>,
                          <<"updateTime", update_time>> >>))

\* FortiManagersAPI.fortimanagers_get
fortimanagers_get_request(oid) ==
    Request("GET", "/v2/setting/fortimanagers/" \o PyFormat(oid),
            NotPassed, NotPassed)
\* fortimanagers_put with a fault: `if oid:` for `if oid is not None:`
fortimanagers_put_request_oid_by_truth(oid, sn, ip, script_oid, update_time) ==
    Request("PUT", "/v2/setting/fortimanagers/" \o PyFormat(oid),
            NotPassed,
            Passed(PyDict(SelectSeq(<< <<"oid", oid>> >>, IsNotNoneByTruth)
                          \o << <<"sn", sn>>, <<"ip", ip>> >>
                          \o Optional(<< <<"scriptOid", script_oid>>,
                                         <<"updateTime", update_time>> >>))))
\* FortiManagersAPI.fortimanagers_put
fortimanagers_put_request(oid, sn, ip, script_oid, update_time) ==
    Request("PUT", "/v2/setting/fortimanagers/" \o PyFormat(oid),
            NotPassed,
            Passed(FortiManagerBody(oid, sn, ip, script_oid, update_time)))
\* FortiManagersAPI.fortimanagers_delete
fortimanagers_delete_request(oid) ==
    Request("DELETE", "/v2/setting/fortimanagers/" \o PyFormat(oid),
            NotPassed, NotPassed)
\* FortiManagersAPI.fortimanagers_list
fortimanagers_list_request ==
    Request("GET", "/v2/setting/fortimanagers", NotPassed, NotPassed)
\* FortiManagersAPI.fortimanagers_post with a fault: the body of
\* fortimanagers_put, which names the manager by its oid, is sent
fortimanagers_post_request_with_oid(sn, ip, oid, script_oid, update_time) ==
    Request("POST", "/v2/setting/fortimanagers",
            NotPassed,
            Passed(PyDict(<< <<"oid", IF oid = PyNone THEN PyInt(0) ELSE oid>>,
                             <<"sn", sn>>, <<"ip", ip>> >>
                          \o Optional(<< <<"scriptOid", script_oid>>,
                                         <<"updateTime", update_time>> >>))))
\* FortiManagersAPI.fortimanagers_post
fortimanagers_post_request(sn, ip, oid, script_oid, update_time) ==
    Request("POST", "/v2/setting/fortimanagers",
            NotPassed,
            Passed(FortiManagerBody(oid, sn, ip, script_oid, update_time)))

(* SystemAPI *)

\* SystemAPI.get
system_get_request == Request("GET", "/v2/system", NotPassed, NotPassed)

---------------------------------------------------------------------------
(* The objects a construction creates.  An object is known by its place   *)
(* in the sequence of the objects created; it has a class and the         *)
(* references it keeps, a sequence of <<attribute, object>>.               *)
Object(class, refs) == [class |-> class, refs |-> refs]
\* the object the attribute attr of the object obj refers to
Ref(objects, obj, attr) == DictValue(objects[obj].refs, attr)

\* the endpoint groups
Groups == {"devices", "scripts", "fortimanagers", "system"}

\* the endpoint methods of each group
MethodsOf ==
    [g \in Groups |->
        CASE g = "devices" ->
               {"devices.list", "devices.bulk_provision", "devices.get",
                "devices.put", "devices.firmware_profiles"}
          [] g = "scripts" ->
               {"scripts.scripts_get", "scripts.scripts_put",
                "scripts.scripts_delete", "scripts.scripts_list",
                "scripts.scripts_post", "scripts.scripts_get_content",
                "scripts.scripts_put_content"}
          [] g = "fortimanagers" ->
               {"fortimanagers.fortimanagers_get",
                "fortimanagers.fortimanagers_put",
                "fortimanagers.fortimanagers_delete",
                "fortimanagers.fortimanagers_list",
                "fortimanagers.fortimanagers_post"}
          [] g = "system" -> {"system.get"}]
GroupOf(method) == CHOOSE g \in Groups : method \in MethodsOf[g]

\* self._client of the group object that client.<group> refers to
GroupHandle(self, group) == Ref(self.objects, self[group], "_client")

\* what an endpoint method records on the _rate_stats of the client: the
\* groups are given the transport handle only and record nothing
RateRecords(method, x) == <<>>

---------------------------------------------------------------------------
(* The transport handle and the invocation of an endpoint method *)

\* what a call on the transport may do: return a payload, or raise
Replies == {<<>>, << <<N_total, PyInt(1)>> >>}
Failures == {"TransportError"}
Outcomes ==
    {[raised |-> FALSE, exc |-> "", payload |-> reply] : reply \in Replies}
    \cup {[raised |-> TRUE, exc |-> e, payload |-> <<>>] : e \in Failures}

\* the exchange a call on the transport stands for: what the call returns
\* to the method (payload) or raises (exc), and what the transport knows
\* of the exchange (status code, elapsed time, request metadata)
Exchange(request, outcome) ==
    [raised |-> outcome.raised,
     exc |-> outcome.exc,
     payload |-> outcome.payload,
     status_code |-> IF outcome.raised THEN PyNone ELSE PyInt(200),
     elapsed |-> PyFloat(120),
     request_meta |-> PyDict(<< <<N_method, PyStr(request.verb)>>,
                                <<N_url, PyStr(request.path)>> >>)]

\* the transport call with a fault: the call is made twice
TransportCallsRetried(request) ==
    << [verb |-> request.verb, path |-> request.path],
       [verb |-> request.verb, path |-> request.path] >>
\* response = self._client.<verb>(path, ...): the calls the transport gets
TransportCalls(request) ==
    << [verb |-> request.verb, path |-> request.path] >>

\* the wrapping with a fault: a failure is caught and an envelope returned
CallAndWrapSwallows(x) ==
    [kind |-> "returned", exc |-> "",
     env |-> FortiZTPResponse(x.payload, PyNone, PyNone, PyNone)]
\* response = self._client.<verb>(...) ; return FortiZTPResponse(response)
\* There is no try around the call: what it raises leaves the method.
CallAndWrap(x) ==
    IF x.raised
    THEN [kind |-> "raised", exc |-> x.exc, env |-> NoEnvelope]
    ELSE [kind |-> "returned", exc |-> "",
          env |-> FortiZTPResponse(x.payload, PyNone, PyNone, PyNone)]

\* the model follows at most MaxCalls invocations
MoreCalls == Len(invocations) < MaxCalls

\* one invocation of an endpoint method with the arguments args (a
\* sequence of <<parameter, value>>), of which ids go into the path, and
\* which builds request
Invoke(method, args, ids, request) ==
    /\ \E outcome \in Outcomes :
         LET x == Exchange(request, outcome) IN
         /\ invocations' = Append(invocations,
                [method |-> method, ids |-> ids,
                 handle |-> GroupHandle(ctor, GroupOf(method)),
                 raised |-> x.raised])
         /\ facade' = [facade EXCEPT
                          !.rate_records = @ \o RateRecords(method, x)]
         /\ transport_log' = transport_log \o TransportCalls(request)
         /\ last' = [made |-> TRUE, method |-> method, args |-> args,
                     request |-> request, exchange |-> x,
                     result |-> CallAndWrap(x)]
    /\ UNCHANGED <<env, acc, ctor, held, callers>>

(* the arguments the methods are invoked with *)
SerialNumbers == {PyStr("FG1"), PyStr("FG2")}
Regions == {PyStr("eu")}
Oids == {PyInt(7)}
OptionalBools == {PyNone, PyBool(FALSE), PyBool(TRUE)}
OptionalStatuses == {PyNone, PyStr("provisioned")}
OptionalTypes == {PyNone, PyStr("")}
OptionalSerials == {PyNone, PyStr("FG1")}
\* the oids of the FortiManager settings that are updated
UpdatedOids == {PyInt(0), PyInt(7)}
OptionalOids == {PyNone, PyInt(0)}
OptionalScriptOids == {PyNone, PyInt(0)}
OptionalTimes == {PyNone, PyInt(0)}
DeviceLists ==
    {PyList(<<>>),
     PyList(<< PyDict(<< <<"deviceSN", PyStr("FG1")>>,
                         <<"provisionStatus", PyStr("provisioned")>> >>) >>)}

\* the optional parameters of DevicesAPI.put, each with a value to supply
PutSample ==
    [provision_target |-> PyStr("FortiManager"),
     region |-> PyStr("eu"),
     external_controller_sn |-> PyStr("FMG1"),
     external_controller_ip |-> PyStr("10.0.0.1"),
     platform |-> PyStr("FortiGate-VM64-KVM"),
     firmware_profile |-> PyStr("stable"),
     forti_manager_oid |-> PyInt(0),
     script_oid |-> PyInt(3),
     use_default_script |-> PyBool(FALSE),
     provisioning_timestamp |-> PyInt(0),
     provisioning_complete_timestamp |-> PyInt(5)]
\* the same parameters, each with the falsy value of its type
PutFalsy ==
    [provision_target |-> PyStr(""),
     region |-> PyStr(""),
     external_controller_sn |-> PyStr(""),
     external_controller_ip |-> PyStr(""),
     platform |-> PyStr(""),
     firmware_profile |-> PyStr(""),
     forti_manager_oid |-> PyInt(0),
     script_oid |-> PyInt(0),
     use_default_script |-> PyBool(FALSE),
     provisioning_timestamp |-> PyInt(0),
     provisioning_complete_timestamp |-> PyInt(0)]
\* none of them supplied, one of them, all of them, or all of them falsy
PutOptionals ==
    {[n \in DOMAIN PutSample |-> IF n \in S THEN PutSample[n] ELSE PyNone] :
        S \in {{}, {"region"}, {"script_oid"}, {"use_default_script"},
                DOMAIN PutSample}}
    \cup {PutFalsy}

(* the endpoint methods as actions *)

devices_list(provision_status, device_type, device_sn, use_cache) ==
    /\ MoreCalls
    /\ Invoke("devices.list",
              << <<"provision_status", provision_status>>,
                 <<"device_type", device_type>>,
                 <<"device_sn", device_sn>>,
                 <<"use_cache", use_cache>> >>,
              <<>>,
              devices_list_request(provision_status, device_type, device_sn,
                                   use_cache))

devices_bulk_provision(devices) ==
    /\ MoreCalls
    /\ Invoke("devices.bulk_provision", << <<"devices", devices>> >>,
              <<>>,
              devices_bulk_provision_request(devices))

devices_get(device_sn, use_cache) ==
    /\ MoreCalls
    /\ Invoke("devices.get",
              << <<"device_sn", device_sn>>, <<"use_cache", use_cache>> >>,
              << <<"device_sn", device_sn>> >>,
              devices_get_request(device_sn, use_cache))

devices_put(device_sn, device_type, provision_status, opt) ==
    /\ MoreCalls
    /\ Invoke("devices.put",
              << <<"device_sn", device_sn>>,
                 <<"device_type", device_type>>,
                 <<"provision_status", provision_status>>,
                 <<"provision_target", opt.provision_target>>,
                 <<"region", opt.region>>,
                 <<"external_controller_sn", opt.external_controller_sn>>,
                 <<"external_controller_ip", opt.external_controller_ip>>,
                 <<"platform", opt.platform>>,
                 <<"firmware_profile", opt.firmware_profile>>,
                 <<"forti_manager_oid", opt.forti_manager_oid>>,
                 <<"script_oid", opt.script_oid>>,
                 <<"use_default_script", opt.use_default_script>>,
                 <<"provisioning_timestamp", opt.provisioning_timestamp>>,
                 <<"provisioning_complete_timestamp",
                   opt.provisioning_complete_timestamp>> >>,
              << <<"device_sn", device_sn>> >>,
              devices_put_request(device_sn, device_type, provision_status, opt))

devices_firmware_profiles(device_sn, region) ==
    /\ MoreCalls
    /\ Invoke("devices.firmware_profiles",
              << <<"device_sn", device_sn>>, <<"region", region>> >>,
              << <<"device_sn", device_sn>>, <<"region", region>> >>,
              devices_firmware_profiles_request(device_sn, region))

scripts_get(oid) ==
    /\ MoreCalls
    /\ Invoke("scripts.scripts_get", << <<"oid", oid>> >>,
              << <<"oid", oid>> >>,
              scripts_get_request(oid))

scripts_put(oid, name, update_time) ==
    /\ MoreCalls
    /\ Invoke("scripts.scripts_put",
              << <<"oid", oid>>, <<"name", name>>,
                 <<"update_time", update_time>> >>,
              << <<"oid", oid>> >>,
              scripts_put_request(oid, name, update_time))

scripts_delete(oid) ==
    /\ MoreCalls
    /\ Invoke("scripts.scripts_delete", << <<"oid", oid>> >>,
              << <<"oid", oid>> >>,
              scripts_delete_request(oid))

scripts_list ==
    /\ MoreCalls
    /\ Invoke("scripts.scripts_list", <<>>, <<>>, scripts_list_request)

scripts_post(oid, name, update_time) ==
    /\ MoreCalls
    /\ Invoke("scripts.scripts_post",
              << <<"oid", oid>>, <<"name", name>>,
                 <<"update_time", update_time>> >>,
              <<>>,
              scripts_post_request(oid, name, update_time))

scripts_get_content(oid) ==
    /\ MoreCalls
    /\ Invoke("scripts.scripts_get_content", << <<"oid", oid>> >>,
              << <<"oid", oid>> >>,
              scripts_get_content_request(oid))

scripts_put_content(oid) ==
    /\ MoreCalls
    /\ Invoke("scripts.scripts_put_content", << <<"oid", oid>> >>,
              << <<"oid", oid>> >>,
              scripts_put_content_request(oid))

fortimanagers_get(oid) ==
    /\ MoreCalls
    /\ Invoke("fortimanagers.fortimanagers_get", << <<"oid", oid>> >>,
              << <<"oid", oid>> >>,
              fortimanagers_get_request(oid))

fortimanagers_put(oid, sn, ip, script_oid, update_time) ==
    /\ MoreCalls
    /\ Invoke("fortimanagers.fortimanagers_put",
              << <<"oid", oid>>, <<"sn", sn>>, <<"ip", ip>>,
                 <<"script_oid", script_oid>>, <<"update_time", update_time>> >>,
              << <<"oid", oid>> >>,
              fortimanagers_put_request(oid, sn, ip, script_oid, update_time))

fortimanagers_delete(oid) ==
    /\ MoreCalls
    /\ Invoke("fortimanagers.fortimanagers_delete", << <<"oid", oid>> >>,
              << <<"oid", oid>> >>,
              fortimanagers_delete_request(oid))

fortimanagers_list ==
    /\ MoreCalls
    /\ Invoke("fortimanagers.fortimanagers_list", <<>>, <<>>,
              fortimanagers_list_request)

fortimanagers_post(sn, ip, oid, script_oid, update_time) ==
    /\ MoreCalls
    /\ Invoke("fortimanagers.fortimanagers_post",
              << <<"sn", sn>>, <<"ip", ip>>, <<"oid", oid>>,
                 <<"script_oid", script_oid>>, <<"update_time", update_time>> >>,
              <<>>,
              fortimanagers_post_request(sn, ip, oid, script_oid, update_time))

system_get ==
    /\ MoreCalls
    /\ Invoke("system.get", <<>>, <<>>, system_get_request)

Next ==
    \/ \E ps \in OptionalStatuses, dt \in OptionalTypes,
          sn \in OptionalSerials, uc \in OptionalBools :
            devices_list(ps, dt, sn, uc)
    \/ \E devices \in DeviceLists : devices_bulk_provision(devices)
    \/ \E sn \in SerialNumbers, uc \in OptionalBools : devices_get(sn, uc)
    \/ \E sn \in SerialNumbers, opt \in PutOptionals :
            devices_put(sn, PyStr("FortiGate"), PyStr("provisioned"), opt)
    \/ \E sn \in SerialNumbers, region \in Regions :
            devices_firmware_profiles(sn, region)
    \/ \E oid \in Oids : scripts_get(oid)
    \/ \E oid \in Oids, ut \in OptionalTimes :
            scripts_put(oid, PyStr("boot"), ut)
    \/ \E oid \in Oids : scripts_delete(oid)
    \/ scripts_list
    \/ \E oid \in Oids, ut \in OptionalTimes :
            scripts_post(oid, PyStr("boot"), ut)
    \/ \E oid \in Oids : scripts_get_content(oid)
    \/ \E oid \in Oids : scripts_put_content(oid)
    \/ \E oid \in Oids : fortimanagers_get(oid)
    \/ \E oid \in UpdatedOids, so \in OptionalScriptOids, ut \in OptionalTimes :
            fortimanagers_put(oid, PyStr("FMG1"), PyStr("10.0.0.1"), so, ut)
    \/ \E oid \in Oids : fortimanagers_delete(oid)
    \/ fortimanagers_list
    \/ \E oid \in OptionalOids, so \in OptionalScriptOids,
          ut \in OptionalTimes :
            fortimanagers_post(PyStr("FMG1"), PyStr("10.0.0.1"), oid, so, ut)
    \/ system_get

---------------------------------------------------------------------------
(* FortiZTP.__init__ : the construction of the client facade.  The calls   *)
(* it makes on its collaborators (CloudSession, FortiCloudAuth,            *)
(* CloudHTTPClient, RateLimitStats) are recorded in order.                 *)

\* FortiZTP.DEFAULT_CLIENT_ID
DEFAULT_CLIENT_ID == PyStr("fortiztp")

\* the rate-limit and circuit-breaker parameters of __init__, and the
\* default each has in the signature
SettingNames ==
    {"rate_limit", "rate_limit_strategy", "rate_limit_max_requests",
     "rate_limit_window_seconds", "rate_limit_queue_size",
     "rate_limit_queue_timeout", "rate_limit_queue_overflow",
     "circuit_breaker", "circuit_breaker_threshold",
     "circuit_breaker_timeout", "circuit_breaker_half_open_calls"}
SettingDefault ==
    [s \in SettingNames |->
        CASE s = "rate_limit" -> PyBool(FALSE)
          [] s = "rate_limit_strategy" -> PyStr("queue")
          [] s = "rate_limit_max_requests" -> PyInt(100)
          [] s = "rate_limit_window_seconds" -> PyFloat(60000)
          [] s = "rate_limit_queue_size" -> PyInt(100)
          [] s = "rate_limit_queue_timeout" -> PyFloat(30000)
          [] s = "rate_limit_queue_overflow" -> PyStr("block")
          [] s = "circuit_breaker" -> PyBool(FALSE)
          [] s = "circuit_breaker_threshold" -> PyInt(5)
          [] s = "circuit_breaker_timeout" -> PyFloat(60000)
          [] s = "circuit_breaker_half_open_calls" -> PyInt(3)]
\* the two that are tested with `is False`
FlagSettings == {"rate_limit", "circuit_breaker"}

\* a CloudSession, or no session (None)
NoSession ==
    [present |-> FALSE, _check_before_request |-> FALSE,
     _settings |-> SettingDefault]
SessionWith(check, settings) ==
    [present |-> TRUE, _check_before_request |-> check, _settings |-> settings]
\* a CloudSession whose settings are the defaults
Session(check) == SessionWith(check, SettingDefault)

\* the value a keyword parameter has in the body of __init__: the one the
\* caller passed, or the default of the signature
ArgValue(settings, s) ==
    IF settings[s].passed THEN settings[s].value ELSE SettingDefault[s]

\* "If using session and rate limiting params not provided, use session
\* defaults": the eleven tests, each on the value the parameter has
SessionDefaults(session, settings) ==
    [s \in SettingNames |->
        LET value == ArgValue(settings, s)
            of_session == session._settings[s]
        IN  IF ~session.present THEN value
            ELSE IF s \in FlagSettings
            THEN IF value = PyBool(FALSE) /\ Truthy(of_session)
                 THEN of_session ELSE value
            ELSE IF value = SettingDefault[s] /\ of_session /= SettingDefault[s]
                 THEN of_session ELSE value]

CollaboratorCall(target, arg) == [target |-> target, arg |-> arg]

\* the tokens the collaborators hand out
SessionToken == PyStr("token-of-session")
AuthToken == PyStr("token-of-login")

\* the test with a fault: `and` for `or`
CredentialsMissingBoth(api_id, password) ==
    ~Truthy(api_id) /\ ~Truthy(password)
\* `not api_id or not password`
CredentialsMissing(api_id, password) ==
    ~Truthy(api_id) \/ ~Truthy(password)

\* the choice of the mode with a fault: more than one mode is refused
ObtainTokenExclusive(api_id, password, client_id, oauth_token, session, get_token_ok) ==
    IF Cardinality({m \in {"session", "token", "credentials"} :
            \/ m = "session" /\ session.present
            \/ m = "token" /\ Truthy(oauth_token)
            \/ m = "credentials" /\ ~CredentialsMissing(api_id, password)})
       /= 1
    THEN [error |-> "ValueError", calls |-> <<>>,
          oauth_token |-> oauth_token, token_callback |-> PyNone]
    ELSE IF session.present
    THEN [error |-> IF get_token_ok THEN "" ELSE "AuthError",
          calls |-> << CollaboratorCall("session.get_token", client_id) >>,
          oauth_token |-> SessionToken, token_callback |-> PyNone]
    ELSE IF Truthy(oauth_token)
    THEN [error |-> "", calls |-> <<>>,
          oauth_token |-> oauth_token, token_callback |-> PyNone]
    ELSE [error |-> IF get_token_ok THEN "" ELSE "AuthError",
          calls |-> << CollaboratorCall("FortiCloudAuth", client_id),
                       CollaboratorCall("FortiCloudAuth.get_token", PyNone) >>,
          oauth_token |-> AuthToken, token_callback |-> PyNone]
\* the choice of the mode with a fault: a token is preferred to a session
ObtainTokenPrefersToken(api_id, password, client_id, oauth_token, session, get_token_ok) ==
    IF Truthy(oauth_token)
    THEN [error |-> "", calls |-> <<>>,
          oauth_token |-> oauth_token, token_callback |-> PyNone]
    ELSE IF session.present
    THEN [error |-> IF get_token_ok THEN "" ELSE "AuthError",
          calls |-> << CollaboratorCall("session.get_token", client_id) >>,
          oauth_token |-> IF get_token_ok THEN SessionToken ELSE oauth_token,
          token_callback |->
              IF get_token_ok /\ session._check_before_request
              THEN PyMethod("get_fresh_token") ELSE PyNone]
    ELSE IF CredentialsMissing(api_id, password)
    THEN [error |-> "ValueError", calls |-> <<>>,
          oauth_token |-> oauth_token, token_callback |-> PyNone]
    ELSE [error |-> IF get_token_ok THEN "" ELSE "AuthError",
          calls |-> << CollaboratorCall("FortiCloudAuth", client_id),
                       CollaboratorCall("FortiCloudAuth.get_token", PyNone) >>,
          oauth_token |-> IF get_token_ok THEN AuthToken ELSE oauth_token,
          token_callback |-> PyNone]
\* "Obtain OAuth token based on auth method": the error raised if any,
\* the collaborator calls made, the token and the token callback.
\* get_token_ok tells whether the get_token call made returns or raises.
ObtainToken(api_id, password, client_id, oauth_token, session, get_token_ok) ==
    IF session.present
    THEN \* CloudSession mode
         [error |-> IF get_token_ok THEN "" ELSE "AuthError",
          calls |-> << CollaboratorCall("session.get_token", client_id) >>,
          oauth_token |-> IF get_token_ok THEN SessionToken ELSE oauth_token,
          token_callback |->
              IF get_token_ok /\ session._check_before_request
              THEN PyMethod("get_fresh_token") ELSE PyNone]
    ELSE IF ~Truthy(oauth_token)
    THEN \* direct auth mode
         IF CredentialsMissing(api_id, password)
         THEN [error |-> "ValueError", calls |-> <<>>,
               oauth_token |-> oauth_token, token_callback |-> PyNone]
         ELSE [error |-> IF get_token_ok THEN "" ELSE "AuthError",
               calls |-> << CollaboratorCall("FortiCloudAuth", client_id),
                            CollaboratorCall("FortiCloudAuth.get_token",
                                             PyNone) >>,
               oauth_token |-> IF get_token_ok THEN AuthToken
                               ELSE oauth_token,
               token_callback |-> PyNone]
    ELSE \* pre-obtained token mode
         [error |-> "", calls |-> <<>>,
          oauth_token |-> oauth_token, token_callback |-> PyNone]

\* the token callback with a fault: the token of the construction is
\* returned, the session is not asked
get_fresh_token_stale(self, valid) ==
    [calls |-> <<>>, ret |-> self.oauth_token]
\* get_fresh_token, the closure given as token_callback:
\* return session.ensure_token_valid(self._client_id), valid being what
\* the session returns
get_fresh_token(self, valid) ==
    [calls |-> << CollaboratorCall("session.ensure_token_valid", self._client_id) >>,
     ret |-> valid]

\* V2API.__init__ with a fault: each group is given a transport handle of
\* its own
V2APIOwnHandles(client, first) ==
    << Object("CloudHTTPClient", <<>>),
       Object("CloudHTTPClient", <<>>),
       Object("CloudHTTPClient", <<>>),
       Object("CloudHTTPClient", <<>>),
       Object("DevicesAPI", << <<"_client", first>> >>),
       Object("ScriptsAPI", << <<"_client", first + 1>> >>),
       Object("FortiManagersAPI", << <<"_client", first + 2>> >>),
       Object("SystemAPI", << <<"_client", first + 3>> >>),
       Object("V2API", << <<"_client", client>>,
                          <<"devices", first + 4>>,
                          <<"scripts", first + 5>>,
                          <<"fortimanagers", first + 6>>,
                          <<"system", first + 7>> >>) >>
\* V2API(client): the objects it creates, the first of them at the place
\* first, the V2API object itself the last
V2API(client, first) ==
    << Object("DevicesAPI", << <<"_client", client>> >>),
       Object("ScriptsAPI", << <<"_client", client>> >>),
       Object("FortiManagersAPI", << <<"_client", client>> >>),
       Object("SystemAPI", << <<"_client", client>> >>),
       Object("V2API", << <<"_client", client>>,
                          <<"devices", first>>,
                          <<"scripts", first + 1>>,
                          <<"fortimanagers", first + 2>>,
                          <<"system", first + 3>> >>) >>

\* the objects of a constructed client: self._client, self._rate_stats
\* and what V2API(self._client) creates
ClientObjects ==
    << Object("CloudHTTPClient", <<>>), Object("RateLimitStats", <<>>) >>
    \o V2API(1, 3)

NotConstructed == [state |-> "none"]

\* FortiZTP(api_id, password, client_id, oauth_token, session): the state
\* the construction ends in
FortiZTP_init(api_id, password, client_id, oauth_token, session, settings, get_token_ok) ==
    LET _client_id == IF client_id /= PyNone THEN client_id
                      ELSE DEFAULT_CLIENT_ID
        merged == SessionDefaults(session, settings)
        got == ObtainToken(api_id, password, _client_id, oauth_token,
                           session, get_token_ok)
        given == [api_id |-> api_id, password |-> password,
                  client_id |-> client_id, oauth_token |-> oauth_token,
                  session |-> session, settings |-> settings]
    IN  IF got.error /= ""
        THEN [state |-> "raised", error |-> got.error, given |-> given,
              _client_id |-> _client_id, calls |-> got.calls,
              oauth_token |-> got.oauth_token,
              token_callback |-> got.token_callback]
        ELSE [state |-> "constructed", error |-> "", given |-> given,
              _client_id |-> _client_id,
              calls |-> got.calls
                  \o << CollaboratorCall("CloudHTTPClient", got.oauth_token),
                        CollaboratorCall("RateLimitStats", PyNone) >>,
              oauth_token |-> got.oauth_token,
              token_callback |-> got.token_callback,
              settings |-> merged,
              refreshes |-> <<>>,
              objects |-> ClientObjects,
              _client |-> 1,
              _rate_stats |-> 2,
              api |-> Len(ClientObjects),
              devices |-> Ref(ClientObjects, Len(ClientObjects), "devices"),
              scripts |-> Ref(ClientObjects, Len(ClientObjects), "scripts"),
              fortimanagers |->
                  Ref(ClientObjects, Len(ClientObjects), "fortimanagers"),
              system |-> Ref(ClientObjects, Len(ClientObjects), "system")]

(* the arguments of the construction *)
OptionalTexts(text) == {PyNone, PyStr(""), PyStr(text)}

\* no setting is passed
NothingPassed == [s \in SettingNames |-> NotPassed]
\* other values than the defaults: of the caller (1) and of the session (2)
OtherSettings(n) ==
    [s \in SettingNames |->
        CASE s \in FlagSettings -> PyBool(TRUE)
          [] s = "rate_limit_strategy" -> PyStr(IF n = 1 THEN "reject" ELSE "wait")
          [] s = "rate_limit_queue_overflow" ->
                 PyStr(IF n = 1 THEN "drop" ELSE "raise")
          [] SettingDefault[s].t = "float" -> PyFloat(SettingDefault[s].i + n)
          [] OTHER -> PyInt(SettingDefault[s].i + n)]
\* the settings the caller passes: none; one, with the value of its
\* default or another; all eleven
CallerSettings ==
    {NothingPassed, [s \in SettingNames |-> Passed(OtherSettings(1)[s])]}
    \cup {[NothingPassed EXCEPT ![s] = Passed(v)] :
            s \in {"rate_limit"}, v \in {PyBool(FALSE), PyBool(TRUE)}}
    \cup {[NothingPassed EXCEPT ![s] = Passed(v)] :
            s \in {"rate_limit_max_requests"}, v \in {PyInt(100), PyInt(50)}}
\* the settings of a session: the defaults, or other values
SessionSettings == {SettingDefault, OtherSettings(2)}
Sessions ==
    {NoSession}
    \cup {SessionWith(check, settings) :
            check \in BOOLEAN, settings \in SessionSettings}

\* the largest number of times the transport asks for a fresh token
MaxRefreshes == 2
\* what session.ensure_token_valid returns
ValidTokens == {PyStr("fresh-1"), PyStr("fresh-2")}

Construct_FortiZTP(api_id, password, client_id, oauth_token, session, settings, get_token_ok) ==
    /\ ctor.state = "none"
    /\ ctor' = FortiZTP_init(api_id, password, client_id, oauth_token,
                             session, settings, get_token_ok)
    /\ UNCHANGED <<env, acc, invocations, transport_log, last, held, facade, callers>>

\* the transport calls the token callback it was given, before a request
RefreshToken(valid) ==
    /\ ctor.state = "constructed"
    /\ ctor.token_callback /= PyNone
    /\ Len(ctor.refreshes) < MaxRefreshes
    /\ ctor' = [ctor EXCEPT !.refreshes =
                    Append(@, [valid |-> valid,
                               calls |-> get_fresh_token(ctor, valid).calls,
                               ret |-> get_fresh_token(ctor, valid).ret])]
    /\ UNCHANGED <<env, acc, invocations, transport_log, last, held, facade, callers>>

NextConstruct ==
    \/ \E api_id \in OptionalTexts("id"), password \in OptionalTexts("pw"),
          client_id \in {PyNone, PyStr("custom")},
          oauth_token \in OptionalTexts("tok"), session \in Sessions,
          settings \in CallerSettings, get_token_ok \in BOOLEAN :
            Construct_FortiZTP(api_id, password, client_id, oauth_token,
                               session, settings, get_token_ok)
    \/ \E valid \in ValidTokens : RefreshToken(valid)

---------------------------------------------------------------------------
(* The methods of the client itself: teardown, the managed scope and the   *)
(* telemetry.  Each is given by the calls it makes on the objects the      *)
(* client holds and by the value it returns.                               *)

\* the largest number of calls, on the client and on its groups together,
\* in one behaviour of the client
MaxOps == 3

\* a call of a method of an object the client holds
ObjectCall(obj, call) == [obj |-> obj, call |-> call]
\* a reference to the client itself, as a value
PyObject(class) == [t |-> "object", i |-> 0, s |-> class, d |-> <<>>]

\* logout with a fault: the client remembers that it is closed, a second
\* logout does nothing
FortiZTP_logout_once(self) ==
    IF \E j \in DOMAIN facade.calls_log : facade.calls_log[j].call = "logout"
    THEN [calls |-> <<>>, value |-> PyNone]
    ELSE [calls |-> << ObjectCall(self._client, "logout") >>, value |-> PyNone]
\* FortiZTP.logout : self._client.logout()
FortiZTP_logout(self) ==
    [calls |-> << ObjectCall(self._client, "logout") >>, value |-> PyNone]

\* FortiZTP.__enter__ : return self
FortiZTP_enter(self) == [calls |-> <<>>, value |-> PyObject("FortiZTP")]

\* __exit__ with a fault: no teardown when the body raised
FortiZTP_exit_unless_raised(self, raised) ==
    [calls |-> IF raised THEN <<>> ELSE FortiZTP_logout(self).calls,
     value |-> PyNone]
\* FortiZTP.__exit__(*args) : self.logout(), whatever the arguments; None
\* is returned, so an exception of the body goes on
FortiZTP_exit(self, raised) ==
    [calls |-> FortiZTP_logout(self).calls, value |-> PyNone]

\* FortiZTP.get_retry_stats : return self._client.get_retry_stats()
FortiZTP_get_retry_stats(self, reply) ==
    [calls |-> << ObjectCall(self._client, "get_retry_stats") >>,
     value |-> reply]

\* a list in the opposite order
Reversed(v) ==
    PyList([j \in DOMAIN v.d |-> v.d[Len(v.d) + 1 - j]])
\* get_operations with a fault: the newest operation comes first
FortiZTP_get_operations_reversed(self, reply) ==
    [calls |-> << ObjectCall(self._client, "get_operations") >>,
     value |-> Reversed(reply)]
\* FortiZTP.get_operations : return self._client.get_operations()
FortiZTP_get_operations(self, reply) ==
    [calls |-> << ObjectCall(self._client, "get_operations") >>,
     value |-> reply]

\* RateLimitStats.get_status() of the stats object, by what has been
\* recorded on the object: the calls and, of them, the errors
get_status(records) ==
    PyDict(<< <<"total_calls", PyInt(Len(records))>>,
              <<"total_errors",
                PyInt(Len(SelectSeq(records, LAMBDA r : r = "error")))>> >>)

\* FortiZTP.get_rate_limit_status : return self._rate_stats.get_status()
FortiZTP_get_rate_limit_status(self, records) ==
    [calls |-> << ObjectCall(self._rate_stats, "get_status") >>,
     value |-> get_status(records)]

\* what the transport answers to get_retry_stats and to get_operations
RetryStats ==
    {PyDict(<<>>),
     PyDict(<< <<"total_retries", PyInt(2)>>,
               <<"total_requests", PyInt(5)>> >>)}
OperationLogs ==
    {PyList(<<>>),
     PyList(<< PyDict(<< <<"method", PyStr("GET")>>,
                         <<"path", PyStr("/v2/devices")>> >>),
               PyDict(<< <<"method", PyStr("PUT")>>,
                         <<"path", PyStr("/v2/devices/FG1")>> >>) >>)}

\* the last call made on the client: the method, whether the body of the
\* scope raised, what the transport answered, the calls made on the
\* objects and the value returned, the length of the log of those calls
\* before, and the endpoint calls made and failed before
NoEvent ==
    [op |-> "none", raised |-> FALSE, reply |-> PyNone, value |-> PyNone,
     calls |-> <<>>, before |-> 0, made |-> 0, failed |-> 0]
ClientIdle ==
    [ret |-> NoEvent, calls_log |-> <<>>, inside |-> FALSE, ops |-> 0,
     teardowns |-> 0, rate_records |-> <<>>]

\* the model follows at most MaxOps calls on a client
MoreOps == Len(invocations) + facade.ops < MaxOps

\* a call of the method op of the client, which makes the calls and
\* returns the value of result, and leaves the scope entered or not
ClientCall(op, raised, reply, result, inside) ==
    /\ facade' =
          [facade EXCEPT
             !.ret = [op |-> op, raised |-> raised, reply |-> reply,
                      value |-> result.value, calls |-> result.calls,
                      before |-> Len(facade.calls_log),
                      made |-> Len(invocations),
                      failed |-> Len(SelectSeq(invocations,
                                               LAMBDA c : c.raised))],
             !.calls_log = @ \o result.calls,
             !.inside = inside,
             !.teardowns = IF op \in {"logout", "__exit__"} THEN @ + 1 ELSE @,
             !.ops = @ + 1]
    /\ UNCHANGED <<env, acc, ctor, invocations, transport_log, last, held, callers>>

\* client.logout()
logout ==
    /\ MoreOps
    /\ ClientCall("logout", FALSE, PyNone, FortiZTP_logout(ctor),
                  facade.inside)

\* `with client as c:` is entered
enter_scope ==
    /\ MoreOps
    /\ ~facade.inside
    /\ ClientCall("__enter__", FALSE, PyNone, FortiZTP_enter(ctor), TRUE)

\* the body of the scope ends, normally or with an exception
exit_scope(raised) ==
    /\ MoreOps
    /\ facade.inside
    /\ ClientCall("__exit__", raised, PyNone, FortiZTP_exit(ctor, raised),
                  FALSE)

\* client.get_retry_stats()
get_retry_stats(reply) ==
    /\ MoreOps
    /\ ClientCall("get_retry_stats", FALSE, reply,
                  FortiZTP_get_retry_stats(ctor, reply), facade.inside)

\* client.get_operations()
get_operations(reply) ==
    /\ MoreOps
    /\ ClientCall("get_operations", FALSE, reply,
                  FortiZTP_get_operations(ctor, reply), facade.inside)

\* client.get_rate_limit_status()
get_rate_limit_status ==
    /\ MoreOps
    /\ ClientCall("get_rate_limit_status", FALSE, PyNone,
                  FortiZTP_get_rate_limit_status(ctor, facade.rate_records),
                  facade.inside)

\* a method of each group is invoked, and the methods of the client
NextClient ==
    \/ \E uc \in {PyNone, PyBool(FALSE)} :
            MoreOps /\ devices_get(PyStr("FG1"), uc)
    \/ MoreOps /\ scripts_list
    \/ MoreOps /\ fortimanagers_delete(PyInt(7))
    \/ MoreOps /\ system_get
    \/ logout
    \/ enter_scope
    \/ \E raised \in BOOLEAN : exit_scope(raised)
    \/ \E reply \in RetryStats : get_retry_stats(reply)
    \/ \E reply \in OperationLogs : get_operations(reply)
    \/ get_rate_limit_status

---------------------------------------------------------------------------
(* Several callers invoke endpoint methods of one client at the same time. *)
(* An invocation runs in steps, and the steps of the callers interleave:   *)
(* the method builds its request, makes the call on the transport, gets    *)
(* what the call returns or raises, and wraps it.                          *)

Callers == 1..MaxCallers

\* where the names of a method body live.  0 stands for the attributes of
\* the group object (self), shared by all callers; c for the frame of the
\* invocation of caller c, which no other invocation can reach.
SelfAttributes == 0
\* an endpoint method with a fault: the request and the response are kept
\* in attributes of self
FrameOfShared(c) == SelfAttributes
\* path, params, data and response are local variables of the method: they
\* live in the frame of the invocation
FrameOf(c) == c

NoFrame == [request |-> system_get_request, response |-> [given |-> FALSE]]
NoCall == [method |-> "", request |-> system_get_request]
NoResult == [kind |-> "none", exc |-> "", env |-> NoEnvelope]

CallersIdle ==
    [pc |-> [c \in Callers |-> "idle"],
     call |-> [c \in Callers |-> NoCall],
     frames |-> [f \in {SelfAttributes} \cup Callers |-> NoFrame],
     sent |-> [c \in Callers |-> NoCall.request],
     reply |-> [c \in Callers |-> [given |-> FALSE]],
     result |-> [c \in Callers |-> NoResult]]

\* the invocations the callers make: the method and the request its
\* arguments build
ConcurrentCalls ==
    {[method |-> "devices.list",
      request |-> devices_list_request(PyNone, PyNone, PyStr(sn), PyNone)] :
        sn \in {"FG1", "FG2"}}
    \cup {[method |-> "scripts.scripts_post",
           request |-> scripts_post_request(PyInt(7), PyStr("boot"), PyNone)],
          [method |-> "system.get", request |-> system_get_request]}

\* caller c invokes a method: the method builds path, params and data
\* from its arguments
Begin(c, call) ==
    /\ callers.pc[c] = "idle"
    /\ callers' = [callers EXCEPT
                      !.pc[c] = "built",
                      !.call[c] = call,
                      !.frames[FrameOf(c)].request = call.request]
    /\ UNCHANGED <<env, acc, ctor, invocations, transport_log, last, held, facade>>

\* self._client.<verb>(path, params=params, data=data): the transport gets
\* the call
Send(c) ==
    /\ callers.pc[c] = "built"
    /\ callers' = [callers EXCEPT
                      !.pc[c] = "sent",
                      !.sent[c] = callers.frames[FrameOf(c)].request]
    /\ transport_log' =
            transport_log \o TransportCalls(callers.frames[FrameOf(c)].request)
    /\ UNCHANGED <<env, acc, ctor, invocations, last, held, facade>>

\* response = ... : the call of caller c returns or raises
Receive(c, outcome) ==
    /\ callers.pc[c] = "sent"
    /\ callers' = [callers EXCEPT
                      !.pc[c] = "replied",
                      !.reply[c] = [given |-> TRUE, outcome |-> outcome],
                      !.frames[FrameOf(c)].response =
                          [given |-> TRUE, outcome |-> outcome]]
    /\ UNCHANGED <<env, acc, ctor, invocations, transport_log, last, held, facade>>

\* return FortiZTPResponse(response), or the failure leaves the method
Finish(c) ==
    /\ callers.pc[c] = "replied"
    /\ callers.frames[FrameOf(c)].response.given
    /\ callers' = [callers EXCEPT
                      !.pc[c] = "done",
                      !.result[c] =
                          CallAndWrap(Exchange(callers.frames[FrameOf(c)].request,
                              callers.frames[FrameOf(c)].response.outcome))]
    /\ UNCHANGED <<env, acc, ctor, invocations, transport_log, last, held, facade>>

NextConcurrent ==
    \/ \E c \in Callers, call \in ConcurrentCalls : Begin(c, call)
    \/ \E c \in Callers : Send(c)
    \/ \E c \in Callers, outcome \in Outcomes : Receive(c, outcome)
    \/ \E c \in Callers : Finish(c)

---------------------------------------------------------------------------
(* Specifications *)

NoInvocation == [made |-> FALSE]

\* nothing has been read, invoked or called
Idle ==
    /\ env = NoEnvelope
    /\ acc = NoAccess
    /\ invocations = <<>>
    /\ transport_log = <<>>
    /\ last = NoInvocation
    /\ held = NothingHeld
    /\ facade = ClientIdle
    /\ callers = CallersIdle

Init ==
    /\ Idle
    /\ ctor = NotConstructed

\* FortiZTP(oauth_token="tok")
TokenClient ==
    FortiZTP_init(PyNone, PyNone, PyNone, PyStr("tok"), NoSession,
                  NothingPassed, TRUE)
\* clients constructed with a token, with credentials, with a session
Clients ==
    {TokenClient,
     FortiZTP_init(PyStr("id"), PyStr("pw"), PyNone, PyNone, NoSession,
                   NothingPassed, TRUE),
     FortiZTP_init(PyNone, PyNone, PyStr("custom"), PyNone, Session(TRUE),
                   NothingPassed, TRUE)}

\* a client has been constructed with a token
InitInvoke ==
    /\ Idle
    /\ ctor = TokenClient

\* one of the clients has been constructed
InitClient ==
    /\ Idle
    /\ ctor \in Clients

\* endpoint methods are invoked on the groups of one client
Spec == InitInvoke /\ [][Next]_vars

\* the groups and the methods of a constructed client are used
SpecClient == InitClient /\ [][NextClient]_vars

\* a client is constructed
SpecConstruct == Init /\ [][NextConstruct]_vars

\* an envelope is constructed and read
SpecEnvelope == Init /\ [][NextEnvelope]_vars

\* an envelope is constructed; the caller keeps and changes mappings
SpecOwnership == Init /\ [][NextOwnership]_vars
\* an envelope is constructed, then iterated
SpecIterate == Init /\ [][NextIterate]_vars
\* several callers use the groups of one client at the same time
SpecConcurrent == InitInvoke /\ [][NextConcurrent]_vars

---------------------------------------------------------------------------
(* Claims about the envelope (checked under SpecEnvelope) *)

\* the key of the last read is a key of the payload
AccKeyPresent == env.made /\ acc.op /= "none" /\ DictHas(env._data, acc.key)
\* the key of the last read is not a key of the payload
AccKeyAbsent == env.made /\ acc.op /= "none" /\ ~DictHas(env._data, acc.key)

\* C1 as stated: for every key k of the payload that does not begin with
\* '_', also one that is the name of a member of the wrapper, env[k],
\* env.get(k) and env.k all return P[k].
C1_Original ==
    (AccKeyPresent /\ ~StartsWithUnderscore(acc.key)
        /\ acc.op \in {"getitem", "get", "getattr"})
    => acc.out = Return(DictValue(env._data, acc.key))

\* C1 amended: for every key k of the payload that does not begin with
\* '_', env[k] and env.get(k) return P[k]; env.k returns P[k] when k is
\* not the name of an attribute of the wrapper itself, and returns that
\* attribute (the property's value, the bound method) when it is.
C1_ReadsAgree ==
    env.made =>
    \A k \in DictKeys(env._data) :
        ~StartsWithUnderscore(k) =>
        LET v == Return(DictValue(env._data, k)) IN
        /\ GetItem(env, k) = v
        /\ \A x \in Defaults : Get(env, k, x) = v
        /\ k \notin OwnAttributeNames => GetAttribute(env, k) = v
        /\ k \in PropertyNames =>
              GetAttribute(env, k) = Return(PropertyValue(env, k))
        /\ k \in MethodNames =>
              GetAttribute(env, k) = Return(PyMethod(k[1] \o k[2]))
        /\ (acc.key = k /\ acc.op \in {"getitem", "get"}) => acc.out = v
        /\ (acc.key = k /\ acc.op = "getattr" /\ k \notin OwnAttributeNames)
              => acc.out = v

\* a plain field of the payload has been read through attribute access
C1_Witness ==
    /\ AccKeyPresent
    /\ acc.op = "getattr"
    /\ acc.key = N_total
    /\ acc.out = Return(PyInt(2))

\* C2 as stated: for every k that is not a key of the payload, whatever
\* the name, get(k, X) returns X, env[k] raises KeyError and env.k raises
\* AttributeError.
C2_Original ==
    AccKeyAbsent =>
        CASE acc.op = "get" -> acc.out = Return(acc.default)
          [] acc.op = "getitem" -> acc.out = Raise("KeyError")
          [] acc.op = "getattr" -> acc.out = Raise("AttributeError")
          [] OTHER -> TRUE

\* C2 amended: for every k that is not a key of the payload, get(k, X)
\* returns X and env[k] raises KeyError; env.k raises AttributeError when
\* k is not the name of an attribute of the wrapper itself, and returns
\* that attribute when it is.
C2_AbsentKey ==
    env.made =>
    \A k \in KeyNames \ DictKeys(env._data) :
        /\ \A x \in Defaults : Get(env, k, x) = Return(x)
        /\ GetItem(env, k) = Raise("KeyError")
        /\ k \notin OwnAttributeNames =>
              GetAttribute(env, k) = Raise("AttributeError")
        /\ k \in OwnAttributeNames => GetAttribute(env, k).kind = "return"
        /\ (acc.key = k /\ acc.op = "get") => acc.out = Return(acc.default)
        /\ (acc.key = k /\ acc.op = "getitem") => acc.out = Raise("KeyError")
        /\ (acc.key = k /\ acc.op = "getattr" /\ k \notin OwnAttributeNames)
              => acc.out = Raise("AttributeError")

\* an absent key has been read with env[k] and the read raised KeyError
C2_Witness ==
    /\ AccKeyAbsent
    /\ env._data /= <<>>
    /\ acc.op = "getitem"
    /\ acc.key = N_total
    /\ acc.out.kind = "KeyError"

\* C3 as stated: for every key k of the payload that begins with '_',
\* also one equal to the name of an internal field of the wrapper, env.k
\* raises AttributeError while `k in env` is true and env[k] returns P[k].
C3_Original ==
    (AccKeyPresent /\ StartsWithUnderscore(acc.key)) =>
        CASE acc.op = "getattr" -> acc.out = Raise("AttributeError")
          [] acc.op = "contains" -> acc.out = Return(PyBool(TRUE))
          [] acc.op = "getitem" ->
               acc.out = Return(DictValue(env._data, acc.key))
          [] OTHER -> TRUE

\* C3 amended: for every key k of the payload that begins with '_',
\* `k in env` is true and env[k] returns P[k]; env.k raises AttributeError
\* when k is not the name of an attribute of the wrapper itself, and
\* returns that attribute (for '_data' the whole payload), never P[k]
\* through the field lookup, when it is.
C3_PrivateKey ==
    env.made =>
    \A k \in DictKeys(env._data) :
        StartsWithUnderscore(k) =>
        /\ Contains(env, k) = Return(PyBool(TRUE))
        /\ GetItem(env, k) = Return(DictValue(env._data, k))
        /\ k \notin OwnAttributeNames =>
              GetAttribute(env, k) = Raise("AttributeError")
        /\ k \in InstanceFields =>
              GetAttribute(env, k) = Return(InstanceFieldValue(env, k))
        /\ (acc.key = k /\ acc.op = "getattr" /\ k \notin OwnAttributeNames)
              => acc.out = Raise("AttributeError")
        /\ (acc.key = k /\ acc.op = "contains")
              => acc.out = Return(PyBool(TRUE))

\* a private key of the payload has been read through attribute access
C3_Witness ==
    /\ AccKeyPresent
    /\ acc.op = "getattr"
    /\ acc.key = N_x
    /\ acc.out.kind = "AttributeError"

\* C14: every accessor of the envelope is a pure read: after any sequence
\* of reads (the properties, dict(), get, attribute access, item access,
\* containment, iteration, len, repr), failing ones included, the payload,
\* the status code, the elapsed time and the request metadata are what
\* they were at construction, and no accessor applied now changes them.
C14_PureReads ==
    env.made =>
        /\ env = held.built
        /\ \A op \in {"getitem", "get", "getattr", "contains", "property",
                       "dict", "iter", "len", "repr"},
              key \in KeyNames \cup PropertyNames :
                AfterAccess(env, op, key) = env

\* env[k] has failed for an absent key k, after other keys were stored
C14_Witness ==
    /\ env.made
    /\ env = held.built
    /\ Len(env._data) = 2
    /\ env._request_info /= PyNone
    /\ acc.op = "getitem"
    /\ acc.out = Raise("KeyError")

\* the text the rendering has when a part is shown exactly when its value
\* is not None
ExpectedRendering(e) ==
    LET status == IF e._http_status_code /= PyNone
                  THEN "status=" \o PyFormat(e._http_status_code) ELSE ""
        time == IF e._response_time /= PyNone
                THEN "time=" \o Format3f(e._response_time) \o "s" ELSE ""
        parts == SelectSeq(<<status, time>>, NonEmpty)
    IN  "<FortiZTPResponse"
        \o (IF parts /= <<>> THEN "(" \o Join(parts) \o ")" ELSE "")
        \o ">"

\* C20 as stated: the rendering has status=<code> exactly when the status
\* code is not None, 0 included, and time=<elapsed>s exactly when the
\* elapsed time is not None, 0 included; the parts present are joined by
\* ', ' in one pair of parentheses, and there are no parentheses exactly
\* when both are None.
C20_Original ==
    (env.made /\ acc.op = "repr") =>
        acc.out = Return(PyStr(ExpectedRendering(env)))

---------------------------------------------------------------------------
(* Claims about the mappings the caller keeps (checked under               *)
(* SpecOwnership)                                                          *)

\* every read of the envelope e gives what the same read of f gives
SameReads(e, f) ==
    /\ \A k \in KeyNames :
          /\ GetItem(e, k) = GetItem(f, k)
          /\ GetAttribute(e, k) = GetAttribute(f, k)
          /\ Contains(e, k) = Contains(f, k)
          /\ \A x \in Defaults : Get(e, k, x) = Get(f, k, x)
    /\ LenOf(e) = LenOf(f)
    /\ Iter(e) = Iter(f)

\* C13 as stated: whatever the caller does to the mapping it passed to
\* the constructor, to the mapping raw returned or to the mapping dict()
\* returned, every later read through the envelope gives what the payload
\* held at construction.
C13_Original ==
    env.made =>
        /\ SameReads(env, held.built)
        /\ acc.op /= "none" =>
              acc.out = Outcome(held.built, acc.op, acc.key, acc.default)

\* the caller keeps the mapping dict() returned
DictKept == "dict" \in DOMAIN held.maps
\* the items of that mapping
DictKeptItems == Deref(held.maps["dict"])
\* dict() and raw have the same keys with the same values
DictEqualsRaw == env.made => Dict(env) = Return(PropertyValue(env, N_raw))

\* C15: dict() returns a mapping with the keys and the values of raw, and
\* it is a copy: a step that adds, removes or replaces a top-level key of
\* the mapping dict() returned changes neither raw nor any read of the
\* envelope.
C15_CopyDetached ==
    [][/\ DictEqualsRaw'
       /\ (~DictKept /\ DictKept') =>
              (DictKeptItems' = env._data /\ env' = env)
       /\ (DictKept /\ DictKeptItems' /= DictKeptItems) =>
              /\ env' = env
              /\ PropertyValue(env', N_raw) = PropertyValue(env, N_raw)
              /\ SameReads(env', env)]_vars

\* the mapping dict() returned has been changed and the envelope still
\* reads as constructed
C15_Witness ==
    /\ env.made
    /\ DictKept
    /\ DictKeptItems = << <<N_total, PyInt(2)>>, <<N_x, PyInt(1)>> >>
    /\ env._data = << <<N_total, PyInt(1)>> >>
    /\ env = held.built
    /\ acc.op = "getitem"
    /\ acc.out = Return(PyInt(1))

---------------------------------------------------------------------------
(* Claims about iteration (checked under SpecIterate) *)

\* the keys of the payload P the envelope was built over, in the order P
\* got them, as the caller gets them
KeysOfPayload ==
    [j \in DOMAIN held.built._data |-> PyStr(NameText(held.built._data[j][1]))]

\* C21: every iteration of an envelope has yielded the first keys of the
\* payload, in the payload's insertion order, as many as it has been
\* advanced, whatever other iterations and reads were made in between; so
\* every iteration starts from the first key, and an iteration that has
\* ended has yielded exactly the keys of the payload, each once, and any
\* two iterations that have ended have yielded the same sequence.
C21_IterationRestartable ==
    env.made =>
        \A i \in DOMAIN held.iters :
            LET it == held.iters[i]
            IN  /\ Len(it.yielded) <= Len(KeysOfPayload)
                /\ it.yielded = SubSeq(KeysOfPayload, 1, Len(it.yielded))
                /\ it.done => it.yielded = KeysOfPayload
                /\ \A j \in DOMAIN held.iters :
                        held.iters[j].done /\ it.done
                            => held.iters[j].yielded = it.yielded

\* C21 happens: over a payload of two keys, a second iteration was started
\* and has ended with both keys while the first, begun before it, has
\* yielded one key only
C21_Witness ==
    /\ env.made
    /\ env._data = << <<N_x, PyInt(1)>>, <<N_total, PyInt(2)>> >>
    /\ Len(held.iters) = 2
    /\ held.iters[1].yielded = << PyStr("_x") >>
    /\ ~held.iters[1].done
    /\ held.iters[2].done
    /\ held.iters[2].yielded = << PyStr("_x"), PyStr("total") >>
    /\ acc.op = "next"
    /\ acc.out = Raise("StopIteration")

---------------------------------------------------------------------------
(* Claims about len() and `in` (checked under SpecEnvelope) *)

\* C22: len(envelope) is the number of keys of the payload P the envelope
\* was built over, whatever the status code, the elapsed time and the
\* request metadata are, and the keys that begin with '_' counted.
C22_LenIsKeyCount ==
    (env.made /\ acc.op = "len") =>
        acc.out = Return(PyInt(Cardinality(DictKeys(held.built._data))))

\* C22 happens: an envelope with a status code, a time and request
\* metadata over a payload of a plain key and a '_' key has length 2
C22_Witness ==
    /\ env.made
    /\ acc.op = "len"
    /\ acc.out = Return(PyInt(2))
    /\ DictKeys(env._data) = {N_total, N_x}
    /\ env._http_status_code = PyInt(200)
    /\ env._request_info /= PyNone

\* C23: `name in envelope` is true exactly when name is a key of the
\* payload P: a key that begins with '_' is found, the name of a member of
\* the wrapper that is not a key of P is not.
C23_ContainsIffKey ==
    (env.made /\ acc.op = "contains") =>
        acc.out = Return(PyBool(\E j \in DOMAIN held.built._data :
                                   held.built._data[j][1] = acc.key))

\* C23 happens: 'raw' in envelope is false over a payload whose only key
\* is a '_' key
C23_Witness ==
    /\ env.made
    /\ acc.op = "contains"
    /\ acc.key = N_raw
    /\ acc.out = Return(PyBool(FALSE))
    /\ DictKeys(env._data) = {N_x}

\* a '_' key of the payload is found by `in`
C23_PrivateKeyFound ==
    /\ env.made
    /\ acc.op = "contains"
    /\ acc.key = N_x
    /\ acc.out = Return(PyBool(TRUE))

---------------------------------------------------------------------------
(* Claims about concurrent use (checked under SpecConcurrent) *)

\* the transport has got the call of caller c
HasSent(c) == callers.pc[c] \in {"sent", "replied", "done"}

\* in every interleaving, each caller's call and result are its own
OwnCallOwnResult ==
    /\ \A c \in Callers :
            HasSent(c) => callers.sent[c] = callers.call[c].request
    /\ \A c \in Callers :
            callers.pc[c] = "done" =>
                callers.result[c] =
                    CallAndWrap(Exchange(callers.call[c].request,
                                         callers.reply[c].outcome))
    /\ callers.frames[SelfAttributes] = NoFrame
    /\ ctor = TokenClient

\* what a step leaves alone: the objects of the client, and the result a
\* caller has got
NothingRewritten ==
    /\ ctor' = ctor
    /\ \A c \in Callers :
            callers.pc[c] = "done" => callers'.result[c] = callers.result[c]

\* C24: when several callers invoke endpoint methods of one client at the
\* same time, in every interleaving the transport gets from each caller
\* the verb, path, query and body built from that caller's own arguments,
\* each caller gets the envelope that wraps what its own transport call
\* returned (or the failure its own call raised), and no step writes an
\* attribute of an endpoint group or a field of an envelope already
\* returned.
C24_ConcurrentCallsIsolated == []OwnCallOwnResult /\ [][NothingRewritten]_vars

\* C24 happens: caller 1 made its transport call first and has its reply
\* but has not wrapped it yet, while caller 2, whose call came second with
\* another request and another outcome, has already got its result
C24_Witness ==
    /\ callers.pc[1] = "replied"
    /\ callers.pc[2] = "done"
    /\ callers.call[1].method = "devices.list"
    /\ callers.call[2].method = "scripts.scripts_post"
    /\ transport_log = TransportCalls(callers.call[1].request)
                           \o TransportCalls(callers.call[2].request)
    /\ ~callers.reply[1].outcome.raised
    /\ callers.reply[2].outcome.raised
    /\ callers.result[2].kind = "raised"
    /\ callers.frames[FrameOf(1)].response = callers.reply[1]

---------------------------------------------------------------------------
(* Claims about the endpoint methods (checked under Spec) *)

\* the REST table: the verb and the path template of each endpoint method
RestTable ==
    [m \in {"devices.list"} |-> <<"GET", <<"/v2/devices">> >>]
    @@ [m \in {"devices.bulk_provision"} |-> <<"PUT", <<"/v2/devices">> >>]
    @@ [m \in {"devices.get"} |-> <<"GET", <<"/v2/devices/", "{sn}">> >>]
    @@ [m \in {"devices.put"} |-> <<"PUT", <<"/v2/devices/", "{sn}">> >>]
    @@ [m \in {"devices.firmware_profiles"} |->
          <<"GET", <<"/v2/devices/", "{sn}", "/regions/", "{region}",
                     "/firmwareprofiles">> >>]
    @@ [m \in {"scripts.scripts_get"} |->
          <<"GET", <<"/v2/setting/scripts/", "{oid}">> >>]
    @@ [m \in {"scripts.scripts_put"} |->
          <<"PUT", <<"/v2/setting/scripts/", "{oid}">> >>]
    @@ [m \in {"scripts.scripts_delete"} |->
          <<"DELETE", <<"/v2/setting/scripts/", "{oid}">> >>]
    @@ [m \in {"scripts.scripts_list"} |->
          <<"GET", <<"/v2/setting/scripts">> >>]
    @@ [m \in {"scripts.scripts_post"} |->
          <<"POST", <<"/v2/setting/scripts">> >>]
    @@ [m \in {"scripts.scripts_get_content"} |->
          <<"GET", <<"/v2/setting/scripts/", "{oid}", "/content">> >>]
    @@ [m \in {"scripts.scripts_put_content"} |->
          <<"PUT", <<"/v2/setting/scripts/", "{oid}", "/content">> >>]
    @@ [m \in {"fortimanagers.fortimanagers_get"} |->
          <<"GET", <<"/v2/setting/fortimanagers/", "{oid}">> >>]
    @@ [m \in {"fortimanagers.fortimanagers_put"} |->
          <<"PUT", <<"/v2/setting/fortimanagers/", "{oid}">> >>]
    @@ [m \in {"fortimanagers.fortimanagers_delete"} |->
          <<"DELETE", <<"/v2/setting/fortimanagers/", "{oid}">> >>]
    @@ [m \in {"fortimanagers.fortimanagers_list"} |->
          <<"GET", <<"/v2/setting/fortimanagers">> >>]
    @@ [m \in {"fortimanagers.fortimanagers_post"} |->
          <<"POST", <<"/v2/setting/fortimanagers">> >>]
    @@ [m \in {"system.get"} |-> <<"GET", <<"/v2/system">> >>]

\* the parameter a placeholder of the table stands for
PlaceholderParameter ==
    [ph \in {"{sn}"} |-> "device_sn"] @@ [ph \in {"{region}"} |-> "region"]
    @@ [ph \in {"{oid}"} |-> "oid"]

\* the text of an identifier: a string as it is, an integer in decimal
IdentifierText(v) == IF v.t = "int" THEN ToString(v.i) ELSE v.s

\* a path template with the identifiers ids put for its placeholders
RECURSIVE FillTemplate(_, _)
FillTemplate(template, ids) ==
    IF template = <<>> THEN ""
    ELSE LET piece == Head(template) IN
         (IF piece \in DOMAIN PlaceholderParameter
          THEN IdentifierText(DictValue(ids, PlaceholderParameter[piece]))
          ELSE piece)
         \o FillTemplate(Tail(template), ids)

\* the transport call the table prescribes for a method and identifiers
TableCall(method, ids) ==
    [verb |-> RestTable[method][1],
     path |-> FillTemplate(RestTable[method][2], ids)]

\* C4 as stated: when the transport call completes, the envelope returned
\* by the endpoint method carries the status code, the elapsed time and
\* the request metadata the transport reported for the exchange.
C4_Original ==
    (last.made /\ last.result.kind = "returned") =>
        /\ last.result.env._http_status_code = last.exchange.status_code
        /\ last.result.env._response_time = last.exchange.elapsed
        /\ last.result.env._request_info = last.exchange.request_meta

\* C7: when the transport call of an endpoint method raises, the method
\* ends with exactly that failure, returns no envelope, and the transport
\* has received no call beyond the one of each invocation.
C7_FailurePropagates ==
    (last.made /\ last.exchange.raised) =>
        /\ last.result.kind = "raised"
        /\ last.result.exc = last.exchange.exc
        /\ last.result.env = NoEnvelope
        /\ Len(transport_log) = Len(invocations)

\* a transport call made by devices.put has raised
C7_Witness ==
    /\ last.made
    /\ last.method = "devices.put"
    /\ last.exchange.raised
    /\ last.result.kind = "raised"

\* C8: after any sequence of n endpoint invocations, succeeding or
\* failing, the transport has received exactly n calls, the i-th of them
\* the call of the i-th invocation.
C8_OneCallPerInvocation ==
    /\ Len(transport_log) = Len(invocations)
    /\ \A j \in DOMAIN invocations :
          j \in DOMAIN transport_log =>
          transport_log[j] = TableCall(invocations[j].method, invocations[j].ids)

\* two different methods have been invoked and the second call failed
C8_Witness ==
    /\ Len(invocations) = 2
    /\ Len(transport_log) = 2
    /\ invocations[1].method = "scripts.scripts_post"
    /\ invocations[2].method = "fortimanagers.fortimanagers_delete"
    /\ last.result.kind = "raised"

\* C9: each endpoint method calls the transport with the verb and the
\* path of its row of the REST table, its identifier parameters put for
\* the placeholders of the path.
C9_VerbAndPath ==
    last.made =>
        /\ last.request.verb = TableCall(last.method, last.args).verb
        /\ last.request.path = TableCall(last.method, last.args).path
        /\ transport_log[Len(transport_log)]
             = [verb |-> last.request.verb, path |-> last.request.path]

\* devices.firmware_profiles has been invoked for a device and a region
C9_Witness ==
    /\ last.made
    /\ last.method = "devices.firmware_profiles"
    /\ last.request.path = "/v2/devices/FG2/regions/eu/firmwareprofiles"

\* the optional query parameters of devices.list and devices.get, each
\* with its API-native name
QueryNames(method) ==
    IF method = "devices.list"
    THEN [a \in {"provision_status"} |-> "provisionStatus"]
         @@ [a \in {"device_type"} |-> "deviceType"]
         @@ [a \in {"device_sn"} |-> "deviceSN"]
         @@ [a \in {"use_cache"} |-> "useCache"]
    ELSE [a \in {"use_cache"} |-> "useCache"]

\* C10: for devices.list and devices.get the keys of the query mapping
\* passed to the transport are exactly the API-native names of the
\* optional parameters supplied with a value other than None, each once
\* and with the supplied value; devices.list() without filters issues
\* GET /v2/devices with an empty query mapping.
C10_QueryKeys ==
    (last.made /\ last.method \in {"devices.list", "devices.get"}) =>
        LET names == QueryNames(last.method)
            supplied == {a \in DOMAIN names :
                            DictValue(last.args, a) /= PyNone}
            query == last.request.params
        IN  /\ query.passed
            /\ query.value.t = "dict"
            /\ DictKeys(query.value.d) = {names[a] : a \in supplied}
            /\ Len(query.value.d) = Cardinality(supplied)
            /\ \A a \in supplied :
                  DictValue(query.value.d, names[a]) = DictValue(last.args, a)
            /\ (last.method = "devices.list" /\ supplied = {}) =>
                  last.request = Request("GET", "/v2/devices",
                                         Passed(PyDict(<<>>)), NotPassed)

\* devices.list() has been invoked without any filter
C10_Witness ==
    /\ last.made
    /\ last.method = "devices.list"
    /\ \A j \in DOMAIN last.args : last.args[j][2] = PyNone
    /\ last.request.params = Passed(PyDict(<<>>))

\* the optional parameters of the endpoint methods that have any, each
\* with its API-native name
OptionalNames(method) ==
    CASE method \in {"devices.list", "devices.get"} -> QueryNames(method)
      [] method = "devices.put" ->
            [a \in {"provision_target"} |-> "provisionTarget"]
            @@ [a \in {"region"} |-> "region"]
            @@ [a \in {"external_controller_sn"} |-> "externalControllerSn"]
            @@ [a \in {"external_controller_ip"} |-> "externalControllerIp"]
            @@ [a \in {"platform"} |-> "platform"]
            @@ [a \in {"firmware_profile"} |-> "firmwareProfile"]
            @@ [a \in {"forti_manager_oid"} |-> "fortiManagerOid"]
            @@ [a \in {"script_oid"} |-> "scriptOid"]
            @@ [a \in {"use_default_script"} |-> "useDefaultScript"]
            @@ [a \in {"provisioning_timestamp"} |-> "provisioningTimestamp"]
            @@ [a \in {"provisioning_complete_timestamp"} |->
                   "provisioningCompleteTimestamp"]
      [] method \in {"scripts.scripts_put", "scripts.scripts_post"} ->
            [a \in {"update_time"} |-> "updateTime"]
      [] method = "fortimanagers.fortimanagers_put" ->
            [a \in {"script_oid"} |-> "scriptOid"]
            @@ [a \in {"update_time"} |-> "updateTime"]
      [] method = "fortimanagers.fortimanagers_post" ->
            [a \in {"oid"} |-> "oid"]
            @@ [a \in {"script_oid"} |-> "scriptOid"]
            @@ [a \in {"update_time"} |-> "updateTime"]
\* the endpoint methods that have optional parameters
MethodsWithOptionals ==
    {"devices.list", "devices.get", "devices.put", "scripts.scripts_put",
     "scripts.scripts_post", "fortimanagers.fortimanagers_put",
     "fortimanagers.fortimanagers_post"}
\* the mapping a request carries them in: the query or the body
SentMapping(method, request) ==
    IF method \in {"devices.list", "devices.get"}
    THEN request.params ELSE request.data
\* a value Python takes for false that is not None
Falsy(v) == v /= PyNone /\ ~Truthy(v)

\* C11: an optional parameter supplied with any value other than None,
\* a falsy one (False, 0, the empty string) included, is in the query or
\* body mapping under its API-native key with that value; a parameter
\* left at None is not in the mapping.
C11_FalsyIncluded ==
    (last.made /\ last.method \in MethodsWithOptionals) =>
        LET names == OptionalNames(last.method)
            sent == SentMapping(last.method, last.request)
        IN  /\ sent.passed
            /\ sent.value.t = "dict"
            /\ \A a \in DOMAIN names :
                  LET v == DictValue(last.args, a) IN
                  IF v /= PyNone
                  THEN /\ DictHas(sent.value.d, names[a])
                       /\ DictValue(sent.value.d, names[a]) = v
                  ELSE ~DictHas(sent.value.d, names[a])

\* devices.put has been invoked with every optional parameter falsy
C11_Witness ==
    /\ last.made
    /\ last.method = "devices.put"
    /\ \A a \in DOMAIN OptionalNames("devices.put") :
          Falsy(DictValue(last.args, a))
    /\ DictValue(last.request.data.value.d, "useDefaultScript") = PyBool(FALSE)
    /\ DictValue(last.request.data.value.d, "fortiManagerOid") = PyInt(0)
    /\ DictValue(last.request.data.value.d, "region") = PyStr("")

\* C12: fortimanagers_post issues POST /v2/setting/fortimanagers with no
\* query and a body whose keys are exactly sn and ip and, for each of
\* oid, script_oid, update_time supplied, its API-native key, each once
\* and with the given value; with none of them supplied the body is
\* exactly {sn: <sn>, ip: <ip>}.
C12_PostBody ==
    (last.made /\ last.method = "fortimanagers.fortimanagers_post") =>
        LET names == OptionalNames(last.method)
            supplied == {a \in DOMAIN names :
                            DictValue(last.args, a) /= PyNone}
            body == last.request.data
        IN  /\ last.request.verb = "POST"
            /\ last.request.path = "/v2/setting/fortimanagers"
            /\ last.request.params = NotPassed
            /\ body.passed
            /\ body.value.t = "dict"
            /\ DictKeys(body.value.d)
                  = {"sn", "ip"} \cup {names[a] : a \in supplied}
            /\ Len(body.value.d) = 2 + Cardinality(supplied)
            /\ DictValue(body.value.d, "sn") = DictValue(last.args, "sn")
            /\ DictValue(body.value.d, "ip") = DictValue(last.args, "ip")
            /\ \A a \in supplied :
                  DictValue(body.value.d, names[a]) = DictValue(last.args, a)
            /\ supplied = {} =>
                  body.value = PyDict(<< <<"sn", DictValue(last.args, "sn")>>,
                                         <<"ip", DictValue(last.args, "ip")>> >>)

\* fortimanagers_post(sn="FMG1", ip="10.0.0.1") has been invoked
C12_Witness ==
    /\ last.made
    /\ last.method = "fortimanagers.fortimanagers_post"
    /\ \A a \in {"oid", "script_oid", "update_time"} :
          DictValue(last.args, a) = PyNone
    /\ last.request.data
          = Passed(PyDict(<< <<"sn", PyStr("FMG1")>>,
                             <<"ip", PyStr("10.0.0.1")>> >>))

\* the endpoint methods that issue PUT or POST
MutatingMethods ==
    {"devices.bulk_provision", "devices.put", "scripts.scripts_put",
     "scripts.scripts_post", "scripts.scripts_put_content",
     "fortimanagers.fortimanagers_put", "fortimanagers.fortimanagers_post"}

\* C27 as stated: every mutating endpoint method passes to the transport a
\* request body built from its parameters; none calls the transport with
\* an absent (None) body.
C27_Original ==
    (last.made /\ last.method \in MutatingMethods) =>
        /\ last.request.verb \in {"PUT", "POST"}
        /\ last.request.data.passed
        /\ last.request.data.value /= PyNone
        /\ last.method = "devices.bulk_provision" =>
              last.request.data.value = DictValue(last.args, "devices")

\* the body of the last request
LastBody == last.request.data.value.d

\* C29: every update by identifier carries the identifier of its path in
\* its body: devices.put sends deviceSN equal to the device_sn put in
\* /v2/devices/{sn}, fortimanagers_put and scripts_put send oid equal to
\* the oid put in their path; and the required keys are in every such
\* body (deviceSN, deviceType, provisionStatus; sn, ip; oid, name for
\* scripts_put and scripts_post).
C29_BodyIdIsPathId ==
    last.made =>
        /\ last.method = "devices.put" =>
              /\ {"deviceSN", "deviceType", "provisionStatus"}
                    \subseteq DictKeys(LastBody)
              /\ DictValue(LastBody, "deviceSN")
                    = DictValue(last.args, "device_sn")
              /\ last.request.path
                    = "/v2/devices/" \o PyFormat(DictValue(LastBody, "deviceSN"))
        /\ last.method = "fortimanagers.fortimanagers_put" =>
              /\ {"sn", "ip", "oid"} \subseteq DictKeys(LastBody)
              /\ DictValue(LastBody, "oid") = DictValue(last.args, "oid")
              /\ last.request.path
                    = "/v2/setting/fortimanagers/"
                        \o PyFormat(DictValue(LastBody, "oid"))
        /\ last.method = "scripts.scripts_put" =>
              /\ {"oid", "name"} \subseteq DictKeys(LastBody)
              /\ DictValue(LastBody, "oid") = DictValue(last.args, "oid")
              /\ last.request.path
                    = "/v2/setting/scripts/"
                        \o PyFormat(DictValue(LastBody, "oid"))
        /\ last.method = "scripts.scripts_post" =>
              /\ {"oid", "name"} \subseteq DictKeys(LastBody)
              /\ DictValue(LastBody, "oid") = DictValue(last.args, "oid")

\* C29 happens: fortimanagers_put(oid=0, ...) has put 0 in the path and in
\* the body
C29_Witness ==
    /\ last.made
    /\ last.method = "fortimanagers.fortimanagers_put"
    /\ last.request.path = "/v2/setting/fortimanagers/0"
    /\ DictValue(LastBody, "oid") = PyInt(0)
    /\ DictValue(LastBody, "sn") = PyStr("FMG1")

---------------------------------------------------------------------------
(* Claims about the construction (checked under SpecConstruct) *)

\* the authentication modes the caller supplied something usable for
SuppliedModes ==
    {m \in {"session", "token", "credentials"} :
        \/ m = "session" /\ ctor.given.session.present
        \/ m = "token" /\ Truthy(ctor.given.oauth_token)
        \/ m = "credentials" /\ Truthy(ctor.given.api_id)
                               /\ Truthy(ctor.given.password)}

\* the get_token calls made on the collaborators
GetTokenCalls ==
    SelectSeq(ctor.calls,
              LAMBDA c : c.target \in {"session.get_token",
                                        "FortiCloudAuth.get_token"})

\* C5: constructing FortiZTP with no session, no usable oauth_token
\* (absent or empty) and without both api_id and password fails with
\* ValueError, and no call has been made on any collaborator.
C5_NoAuthFails ==
    (/\ ctor.state /= "none"
     /\ ~ctor.given.session.present
     /\ ~Truthy(ctor.given.oauth_token)
     /\ ~(Truthy(ctor.given.api_id) /\ Truthy(ctor.given.password)))
    => /\ ctor.state = "raised"
       /\ ctor.error = "ValueError"
       /\ ctor.calls = <<>>

\* a construction with an api_id but no password has failed
C5_Witness ==
    /\ ctor.state = "raised"
    /\ ctor.error = "ValueError"
    /\ ctor.given.api_id = PyStr("id")
    /\ ctor.given.password = PyNone
    /\ ctor.given.oauth_token = PyStr("")

\* C6 as stated: construction succeeds only when exactly one of
\* {oauth_token, (api_id and password), session} is supplied; when more
\* than one is supplied it fails with ValueError before any get_token
\* call.
C6_Original ==
    ctor.state /= "none" =>
        /\ ctor.state = "constructed" => Cardinality(SuppliedModes) = 1
        /\ Cardinality(SuppliedModes) > 1 =>
              (ctor.state = "raised" /\ ctor.error = "ValueError"
                  /\ GetTokenCalls = <<>>)

\* C6 amended: the three modes are alternatives, not mutually exclusive.
\* Construction fails with ValueError, before any call on a collaborator,
\* exactly when none of {session, non-empty oauth_token, (non-empty api_id
\* and password)} is supplied; when one or more are supplied no ValueError
\* is raised, at most one get_token call is made, and construction
\* succeeds unless that call raises.
C6_AtLeastOneMode ==
    ctor.state /= "none" =>
        /\ (ctor.state = "raised" /\ ctor.error = "ValueError")
              <=> SuppliedModes = {}
        /\ ctor.error = "ValueError" => ctor.calls = <<>>
        /\ Len(GetTokenCalls) <= 1
        /\ ctor.state = "constructed" <=>
              (SuppliedModes /= {} /\
               (GetTokenCalls = <<>> \/ ctor.error = ""))
        /\ (ctor.state = "raised" /\ ctor.error /= "ValueError") =>
              Len(GetTokenCalls) = 1

\* a construction given a session, a token and credentials has succeeded
C6_Witness ==
    /\ ctor.state = "constructed"
    /\ SuppliedModes = {"session", "token", "credentials"}
    /\ Len(GetTokenCalls) = 1

\* the places in ctor.calls of the calls on target
CallPlaces(target) == {k \in DOMAIN ctor.calls : ctor.calls[k].target = target}
\* the places of the get_token calls
GetTokenPlaces ==
    CallPlaces("session.get_token") \cup CallPlaces("FortiCloudAuth.get_token")
\* the calls made on FortiCloudAuth: its creation and its get_token
AuthPlaces ==
    CallPlaces("FortiCloudAuth") \cup CallPlaces("FortiCloudAuth.get_token")

\* C25: the transport is constructed with a token callback exactly when a
\* session is given whose check-before-request flag is true; with no
\* callback when the flag is false, in token mode and in credentials mode.
\* Every invocation of the callback makes one call
\* session.ensure_token_valid(client_id of this client) and returns what
\* that call returns.  The initial token is obtained once (one get_token
\* call, none when the token is given), before the one construction of the
\* transport, which gets that token.
C25_RefreshHook ==
    ctor.state = "constructed" =>
        /\ ctor.token_callback /= PyNone
              <=> (ctor.given.session.present
                   /\ ctor.given.session._check_before_request)
        /\ \A i \in DOMAIN ctor.refreshes :
              /\ ctor.refreshes[i].calls =
                    << CollaboratorCall("session.ensure_token_valid",
                                        ctor._client_id) >>
              /\ ctor.refreshes[i].ret = ctor.refreshes[i].valid
        /\ Cardinality(CallPlaces("CloudHTTPClient")) = 1
        /\ Cardinality(GetTokenPlaces) =
              IF ctor.given.session.present \/ ~Truthy(ctor.given.oauth_token)
              THEN 1 ELSE 0
        /\ \A g \in GetTokenPlaces, t \in CallPlaces("CloudHTTPClient") :
              /\ g < t
              /\ ctor.calls[t].arg = ctor.oauth_token

\* C25 happens: a client built on a session with the flag set, with a
\* client_id of its own; its token callback was invoked twice and
\* returned the two tokens the session gave
C25_Witness ==
    /\ ctor.state = "constructed"
    /\ ctor.given.session.present
    /\ ctor.given.client_id = PyStr("custom")
    /\ ctor.token_callback = PyMethod("get_fresh_token")
    /\ Len(ctor.refreshes) = 2
    /\ ctor.refreshes[1].ret = PyStr("fresh-1")
    /\ ctor.refreshes[2].ret = PyStr("fresh-2")
    /\ ctor.refreshes[2].calls[1].arg = PyStr("custom")

\* a client built on a session with the flag cleared has no callback
C25_NoHook ==
    /\ ctor.state = "constructed"
    /\ ctor.given.session.present
    /\ ~ctor.given.session._check_before_request
    /\ ctor.token_callback = PyNone

\* C26 as stated: with a session, each of the eleven settings reaches the
\* transport with the caller's value whenever the caller passed one,
\* whatever that value is, and with the session's value only when the
\* caller passed none.
C26_Original ==
    (ctor.state = "constructed" /\ ctor.given.session.present) =>
        \A s \in SettingNames :
            ctor.settings[s] =
                IF ctor.given.settings[s].passed
                THEN ctor.given.settings[s].value
                ELSE ctor.given.session._settings[s]

\* C28: the mode is chosen session first, then token, then credentials.
\* With a session the first call is session.get_token(client_id), the
\* transport gets the token that call returned, and no FortiCloudAuth is
\* created, whatever token and credentials are given too.  With no
\* session and a non-empty token the transport gets that token and no call
\* is made on FortiCloudAuth, whatever credentials are given too.
\* FortiCloudAuth is created and asked for a token only when there is no
\* session and no non-empty token.
C28_ModePrecedence ==
    ctor.state /= "none" =>
        /\ ctor.given.session.present =>
              /\ ctor.calls[1] =
                    CollaboratorCall("session.get_token", ctor._client_id)
              /\ AuthPlaces = {}
              /\ ctor.state = "constructed" =>
                    /\ ctor.oauth_token = SessionToken
                    /\ \A t \in CallPlaces("CloudHTTPClient") :
                          ctor.calls[t].arg = SessionToken
        /\ (~ctor.given.session.present /\ Truthy(ctor.given.oauth_token)) =>
              /\ ctor.state = "constructed"
              /\ GetTokenPlaces = {}
              /\ AuthPlaces = {}
              /\ \A t \in CallPlaces("CloudHTTPClient") :
                    ctor.calls[t].arg = ctor.given.oauth_token
        /\ AuthPlaces /= {} =>
              /\ ~ctor.given.session.present
              /\ ~Truthy(ctor.given.oauth_token)
              /\ Cardinality(CallPlaces("FortiCloudAuth")) = 1

\* C28 happens: a session, a token and credentials were all given, and
\* the transport got the token of the session
C28_Witness ==
    /\ ctor.state = "constructed"
    /\ ctor.given.session.present
    /\ ctor.given.oauth_token = PyStr("tok")
    /\ ctor.given.api_id = PyStr("id")
    /\ ctor.given.password = PyStr("pw")
    /\ ctor.oauth_token = SessionToken
    /\ \E t \in CallPlaces("CloudHTTPClient") : ctor.calls[t].arg = SessionToken

\* a token and credentials were given without a session: the token is used
C28_TokenBeforeCredentials ==
    /\ ctor.state = "constructed"
    /\ ~ctor.given.session.present
    /\ ctor.given.oauth_token = PyStr("tok")
    /\ ctor.given.api_id = PyStr("id")
    /\ ctor.given.password = PyStr("pw")
    /\ ctor.oauth_token = PyStr("tok")

---------------------------------------------------------------------------
(* Claims about a constructed client (checked under SpecClient) *)

\* the objects of the class class that the construction created
ObjectsOf(class) ==
    {obj \in DOMAIN ctor.objects : ctor.objects[obj].class = class}

\* C16: a constructed client has exactly one transport handle; the four
\* endpoint groups all hold that handle; client.devices, client.scripts,
\* client.fortimanagers and client.system are the objects client.api
\* holds under the same names; every endpoint invocation has gone to
\* that one handle.
C16_OneSharedHandle ==
    ctor.state = "constructed" =>
        /\ ObjectsOf("CloudHTTPClient") = {ctor._client}
        /\ Len(SelectSeq(ctor.calls,
                         LAMBDA c : c.target = "CloudHTTPClient")) = 1
        /\ ctor.objects[ctor.api].class = "V2API"
        /\ \A g \in Groups :
              /\ ctor[g] = Ref(ctor.objects, ctor.api, g)
              /\ GroupHandle(ctor, g) = ctor._client
              /\ Ref(ctor.objects, Ref(ctor.objects, ctor.api, g), "_client")
                    = ctor._client
        /\ Cardinality({ctor[g] : g \in Groups}) = 4
        /\ \A j \in DOMAIN invocations :
              invocations[j].handle = ctor._client

\* methods of two different groups have been invoked on one client
C16_Witness ==
    /\ ctor.state = "constructed"
    /\ Len(invocations) = 2
    /\ invocations[1].method = "system.get"
    /\ invocations[2].method = "scripts.scripts_list"
    /\ invocations[1].handle = invocations[2].handle

\* the calls the last call on the client made are the last of the log
LastCallsLogged ==
    /\ Len(facade.calls_log) = facade.ret.before + Len(facade.ret.calls)
    /\ \A j \in DOMAIN facade.ret.calls :
          facade.calls_log[facade.ret.before + j] = facade.ret.calls[j]

\* C17: logout() makes one call, the transport's logout; leaving a
\* managed scope does the same, when the body ended normally and when it
\* ended with an exception, and does not swallow the exception; entering
\* the scope returns the client itself and makes no call.
C17_TeardownReleases ==
    LET r == facade.ret
        teardown == << ObjectCall(ctor._client, "logout") >>
    IN  /\ r.op = "logout" => (r.calls = teardown /\ LastCallsLogged)
        /\ r.op = "__exit__" =>
              (r.calls = teardown /\ ~Truthy(r.value) /\ LastCallsLogged)
        /\ r.op = "__enter__" =>
              /\ r.calls = <<>>
              /\ r.value = PyObject("FortiZTP")
              /\ Len(facade.calls_log) = r.before
        /\ (r.op \in {"logout", "__exit__", "__enter__"}) =>
              Len(transport_log) = Len(invocations)

\* a scope whose body made a request that failed has been left
C17_Witness ==
    /\ facade.ret.op = "__exit__"
    /\ facade.ret.raised
    /\ facade.ret.made = 1
    /\ facade.ret.failed = 1
    /\ facade.calls_log = << ObjectCall(ctor._client, "logout") >>

\* C18: get_retry_stats() and get_operations() each make exactly one
\* call, to the accessor of the same name of the transport handle, and
\* return what it returned, the operations in the same order; no request
\* is made.
C18_PassThrough ==
    LET r == facade.ret IN
    (r.op \in {"get_retry_stats", "get_operations"}) =>
        /\ r.calls = << ObjectCall(ctor._client, r.op) >>
        /\ r.value = r.reply
        /\ LastCallsLogged
        /\ Len(transport_log) = Len(invocations)

\* get_operations() has returned a log of two operations
C18_Witness ==
    /\ facade.ret.op = "get_operations"
    /\ Len(facade.ret.reply.d) = 2
    /\ facade.ret.value.d[1] /= facade.ret.value.d[2]
    /\ facade.ret.value = facade.ret.reply

\* C19 as stated: get_rate_limit_status() called after n endpoint calls
\* on this client, e of them failed, returns total_calls = n and
\* total_errors = e.
C19_Original ==
    LET r == facade.ret IN
    r.op = "get_rate_limit_status" =>
        /\ DictValue(r.value.d, "total_calls") = PyInt(r.made)
        /\ DictValue(r.value.d, "total_errors") = PyInt(r.failed)

\* the logout calls the transport handle has got
TransportLogouts ==
    SelectSeq(facade.calls_log,
              LAMBDA c : c = ObjectCall(ctor._client, "logout"))

\* every logout() and every exit of a scope has made one logout call on
\* the transport, also when the client was logged out before
EveryTeardownForwarded == Len(TransportLogouts) = facade.teardowns

\* an endpoint method invoked after a logout makes its one call on the
\* transport as before a logout, and returns or raises what that call does
ForwardedAfterLogout ==
    (TransportLogouts /= <<>> /\ Len(invocations') = Len(invocations) + 1) =>
        /\ Len(transport_log') = Len(transport_log) + 1
        /\ transport_log'[Len(transport_log')]
              = [verb |-> last'.request.verb, path |-> last'.request.path]
        /\ last'.result = CallAndWrap(last'.exchange)
        /\ facade'.calls_log = facade.calls_log

\* C30: the client keeps no open/closed state.  Each logout() and each
\* exit of a managed scope forwards one logout call to the transport, so
\* a logout() inside a scope and the exit of the scope make two; and an
\* endpoint method invoked after a logout is forwarded to the transport as
\* one request, not rejected by the client.
C30_NoClosedState == []EveryTeardownForwarded /\ [][ForwardedAfterLogout]_vars

\* C30 happens: a scope was entered, logout() called in it, and the scope
\* left: the transport has got two logout calls
C30_Witness ==
    /\ facade.ret.op = "__exit__"
    /\ facade.teardowns = 2
    /\ facade.ops = 3
    /\ facade.calls_log = << ObjectCall(ctor._client, "logout"),
                             ObjectCall(ctor._client, "logout") >>

\* a request was made after logout() and the transport got it
C30_RequestAfterLogout ==
    /\ TransportLogouts /= <<>>
    /\ facade.ret.op = "logout"
    /\ facade.ret.made = 0
    /\ Len(invocations) = 1
    /\ Len(transport_log) = 1
    /\ last.result.kind = "returned"

=============================================================================
